---- MODULE Spec2Model ----
(***************************************************************************)
(* Palaver: push-to-talk dictation agent.                                  *)
(*                                                                         *)
(* The module models four parts of the program as state machines over one  *)
(* set of variables, each with its own specification:                      *)
(*   SpecRec     the audio recorder (Start / readLoop / Stop)               *)
(*   Spec        the pipeline: hotkey callbacks of run(), the recorder and  *)
(*               the TUI coordinator (Model.Update and its commands)        *)
(*   SpecPP      the coordinator's post-processing and pasting stages       *)
(*   SpecHotkey  the hotkey observers (evdev listener, CGEventTap callback) *)
(*   SpecServer  the managed-server supervisor (Server.Start/Stop/Running)  *)
(* FairSpec and FairSpecServer add the fairness of the scheduler to Spec    *)
(* and SpecServer for the claims about progress.                           *)
(***************************************************************************)
EXTENDS Integers, Sequences, FiniteSets, TLC

VARIABLES
    \* ---- recorder.Recorder (configuration read at New) ----
    nativeSR, nativeChannels, maxDurationSec,
    \* ---- recorder.Recorder (mutable fields) ----
    recording, truncated, bufLen, stream, done, loopDone,
    \* channels and streams are heap objects, named by the number of the
    \* Start call that made them (0 is nil)
    doneClosed, loopDoneClosed, streamSt,
    \* one readLoop goroutine per successful Start
    rdPc,
    nOpened,
    \* the goroutine calling Start/Stop: its position and Stop's locals
    callPc, stopDone, stopLoopDone, lastRet,
    \* ---- run(): the listener goroutine and its callbacks ----
    keyHeld, hkPc, recMu, press,
    \* ---- tui.Model and the Bubble Tea runtime ----
    State, LastTranscript, LastError, cmds, inbox, hist,
    \* ---- hotkey observers ----
    platform, physDown, physMods, active, cbLog, nEvents,
    \* ---- Listener.Start: the call, the goroutine it starts, the event
    \* source and the value returned ----
    lsnPc, auxPc, runLoop, devClosed, errCh, lsnRet,
    \* ---- the registry of CGEventTap listeners ----
    nextListenerID, freedIDs, listenerMap, idRet,
    \* ---- Server.Setup: the files of the install and the position of the call ----
    files, instPc, dlDest, instRet,
    \* ---- config.Save: the configuration file, the temporary file and the position of the call ----
    cfgFile, cfgTmp, staleTmp, savePc, nSaves, saveRet,
    \* ---- transcriber.Command: the configured command, the temporary WAV file and the position of Transcribe ----
    command, tmpWav, trPc, trWav, nCalls, trRet,
    \* ---- postprocess: the tone registry (process-wide) and the value of the last call ----
    toneOrder, tones, toneRet, nRegs,
    \* ---- tui.Model: what the key bindings change, and the command the last KeyMsg returned ----
    themeName, toneName, ppModelName, Server, serverState, quit, keyCmd, lastKey, nKeys,
    \* ---- recorder.DownmixStereoToMono: the buffer handed in and the buffer returned ----
    stereo, mono, dmDone,
    \* ---- tui.Model and the runtime: the server commands issued, and the status checks, their messages and their timers in flight ----
    srvCmd, statusCmds, statusMsgs, statusTicks, tickMsgs,
    \* ---- hotkey (darwin): the listeners, the run loops of cgeventtap_darwin.c, the watchers and contexts, and who stopped each run loop ----
    tapPc, tapId, tapLoops, tapWatch, tapCtx, tapStopBy,
    \* ---- server.Server ----
    cmd, child, srvPc, srvMu, sigSent, killSent, ctxDone, nSpawned, srvRet

recCfg  == <<nativeSR, nativeChannels, maxDurationSec>>
recVars == <<recording, truncated, bufLen, stream, done, loopDone,
             doneClosed, loopDoneClosed, streamSt, rdPc, nOpened,
             callPc, stopDone, stopLoopDone, lastRet>>
hkVars  == <<keyHeld, hkPc, recMu, press>>
tuiVars == <<State, LastTranscript, LastError, cmds, inbox, hist>>
obsVars == <<platform, physDown, physMods, active, cbLog, nEvents>>
srvVars == <<cmd, child, srvPc, srvMu, sigSent, killSent, ctxDone, nSpawned, srvRet>>
lsnVars == <<lsnPc, auxPc, runLoop, devClosed, errCh, lsnRet>>
idVars  == <<nextListenerID, freedIDs, listenerMap, idRet>>
\* the packages besides recorder, run, tui, hotkey and server
instVars == <<files, instPc, dlDest, instRet>>
cfgVars == <<cfgFile, cfgTmp, staleTmp, savePc, nSaves, saveRet>>
trVars == <<command, tmpWav, trPc, trWav, nCalls, trRet>>
toneVars == <<toneOrder, tones, toneRet, nRegs>>
keyVars == <<themeName, toneName, ppModelName, Server, serverState, quit, keyCmd, lastKey, nKeys>>
dmVars == <<stereo, mono, dmDone>>
tsVars == <<srvCmd, statusCmds, statusMsgs, statusTicks, tickMsgs>>
tapVars == <<tapPc, tapId, tapLoops, tapWatch, tapCtx, tapStopBy>>
extVars == <<idVars, instVars, cfgVars, trVars, toneVars, keyVars, dmVars, tsVars, tapVars>>
vars    == <<recCfg, recVars, hkVars, tuiVars, obsVars, lsnVars, srvVars, extVars>>
\* what a step of the recorder leaves alone
notRec  == <<recCfg, hkVars, tuiVars, obsVars, lsnVars, srvVars, extVars>>

(***************************************************************************)
(* Bounds of the model                                                     *)
(***************************************************************************)
\* streams opened by Recorder.Start in one run of the recorder alone
MaxStreams == 2
\* key presses in one run of the pipeline
MaxPresses == 2
\* key presses in one run of the pipeline under fairness
MaxFairPresses == 1
\* sessions in one run of the coordinator with post-processing
MaxPpSessions == 2
\* OS key events in one run of a hotkey observer
MaxEvents == 5
\* child processes spawned in one run of the supervisor
MaxSpawns == 2
\* the capacity of the listener table (256 in the source), scaled down
maxListenerID == 4
\* chunks in which a downloaded file arrives or a file is written
FileChunks == 2
\* calls of Command.Transcribe in one run
MaxTranscribes == 3
\* calls of config.Save in one history of the configuration file
MaxSaves == 3
\* calls of RegisterCustomTones in one run
MaxRegistrations == 2
\* entries of one list of custom tones
MaxCustom == 2
\* key events the TUI reads in one run
MaxKeys == 1
\* frames of a stereo buffer handed to DownmixStereoToMono
MaxFrames == 2

\* Device rates, scaled down by 1000 (16 kHz, 20 kHz) plus one rate that is
\* no multiple of 10, as 11025 Hz and 22050/2 are.
NativeRates == {10, 20, 21}
\* MaxInputChannels as PortAudio may report it
ChannelCounts == {1, 2, 4}
\* audio.max_duration_sec
MaxDurations == {1, 2}

SmallestRate == CHOOSE r \in NativeRates : \A q \in NativeRates : r <= q

StreamIds == 1..(MaxStreams + MaxPresses + 2)

(***************************************************************************)
(* Recorder                                                                *)
(***************************************************************************)
\* Start: channels clamped to [1,2]
channels ==
    IF nativeChannels > 2 THEN 2
    ELSE IF nativeChannels < 1 THEN 1
    ELSE nativeChannels

\* Start: framesPerBuffer := int(r.nativeSR / 10)
framesPerBuffer == nativeSR \div 10

\* Start: inputBuf := make([]int16, framesPerBuffer*channels)
inputBufLen == framesPerBuffer * channels

\* readLoop: maxSamples := int(r.nativeSR) * r.maxDurationSec
maxSamples == nativeSR * maxDurationSec

\* readLoop: samples appended to r.buf by one read (stereo is downmixed,
\* one sample per frame; mono is appended as read)
appended ==
    IF channels = 2 THEN inputBufLen \div 2 ELSE inputBufLen

NoRet == [op |-> "none", err |-> "none", sess |-> 0, trunc |-> FALSE, n |-> 0]

RecInit ==
    /\ recording = FALSE
    /\ truncated = FALSE
    /\ bufLen = 0
    /\ stream = 0
    /\ done = 0
    /\ loopDone = 0
    /\ doneClosed = {}
    /\ loopDoneClosed = {}
    /\ streamSt = [s \in StreamIds |-> "none"]
    /\ rdPc = [s \in StreamIds |-> "none"]
    /\ nOpened = 0
    /\ callPc = "idle"
    /\ stopDone = 0
    /\ stopLoopDone = 0
    /\ lastRet = NoRet

\* Start as it would be if it cleared the buffer and the truncation flag
\* before the test of r.recording
StartOp_ResetsFirst(outcome, maxOpen) ==
    /\ callPc = "idle"
    /\ IF recording
       THEN /\ outcome = "ok"
            /\ lastRet' = [NoRet EXCEPT !.op = "start", !.err = "already recording"]
            /\ bufLen' = 0
            /\ truncated' = FALSE
            /\ UNCHANGED <<recording, stream, done, loopDone,
                           streamSt, rdPc, nOpened>>
       ELSE /\ bufLen' = 0
            /\ truncated' = FALSE
            /\ CASE outcome = "open_fail" ->
                      /\ lastRet' = [NoRet EXCEPT !.op = "start", !.err = "open stream"]
                      /\ UNCHANGED <<recording, stream, done, loopDone,
                                     streamSt, rdPc, nOpened>>
                 [] outcome = "start_fail" ->
                      /\ nOpened < maxOpen
                      /\ nOpened' = nOpened + 1
                      /\ streamSt' = [streamSt EXCEPT ![nOpened + 1] = "closed"]
                      /\ lastRet' = [NoRet EXCEPT !.op = "start", !.err = "start stream"]
                      /\ UNCHANGED <<recording, stream, done, loopDone, rdPc>>
                 [] outcome = "ok" ->
                      /\ nOpened < maxOpen
                      /\ nOpened' = nOpened + 1
                      /\ streamSt' = [streamSt EXCEPT ![nOpened + 1] = "open"]
                      /\ stream' = nOpened + 1
                      /\ recording' = TRUE
                      /\ done' = nOpened + 1
                      /\ loopDone' = nOpened + 1
                      /\ rdPc' = [rdPc EXCEPT ![nOpened + 1] = "select"]
                      /\ lastRet' = [NoRet EXCEPT !.op = "start", !.sess = nOpened + 1]
    /\ UNCHANGED <<doneClosed, loopDoneClosed, callPc, stopDone, stopLoopDone>>

\* Recorder.Start, the whole call (it runs under r.mu). outcome is what
\* PortAudio answers: "ok", "open_fail" (OpenDefaultStream fails) or
\* "start_fail" (stream.Start fails and the stream is closed again).
StartOp(outcome, maxOpen) ==
    /\ callPc = "idle"
    /\ IF recording
       THEN /\ outcome = "ok"
            /\ lastRet' = [NoRet EXCEPT !.op = "start", !.err = "already recording"]
            /\ UNCHANGED <<recording, truncated, bufLen, stream, done, loopDone,
                           streamSt, rdPc, nOpened>>
       ELSE /\ bufLen' = 0
            /\ truncated' = FALSE
            /\ CASE outcome = "open_fail" ->
                      /\ lastRet' = [NoRet EXCEPT !.op = "start", !.err = "open stream"]
                      /\ UNCHANGED <<recording, stream, done, loopDone,
                                     streamSt, rdPc, nOpened>>
                 [] outcome = "start_fail" ->
                      /\ nOpened < maxOpen
                      /\ nOpened' = nOpened + 1
                      /\ streamSt' = [streamSt EXCEPT ![nOpened + 1] = "closed"]
                      /\ lastRet' = [NoRet EXCEPT !.op = "start", !.err = "start stream"]
                      /\ UNCHANGED <<recording, stream, done, loopDone, rdPc>>
                 [] outcome = "ok" ->
                      /\ nOpened < maxOpen
                      /\ nOpened' = nOpened + 1
                      /\ streamSt' = [streamSt EXCEPT ![nOpened + 1] = "open"]
                      /\ stream' = nOpened + 1
                      /\ recording' = TRUE
                      /\ done' = nOpened + 1
                      /\ loopDone' = nOpened + 1
                      /\ rdPc' = [rdPc EXCEPT ![nOpened + 1] = "select"]
                      /\ lastRet' = [NoRet EXCEPT !.op = "start", !.sess = nOpened + 1]
    /\ UNCHANGED <<doneClosed, loopDoneClosed, callPc, stopDone, stopLoopDone>>

\* readLoop, top of the loop: select { case <-done: return; default: }
\* (the deferred close(loopDone) runs on every return)
RdSelect(s) ==
    /\ rdPc[s] = "select"
    /\ IF s \in doneClosed
       THEN /\ rdPc' = [rdPc EXCEPT ![s] = "exited"]
            /\ loopDoneClosed' = loopDoneClosed \cup {s}
       ELSE /\ rdPc' = [rdPc EXCEPT ![s] = "read"]
            /\ UNCHANGED loopDoneClosed
    /\ UNCHANGED notRec
    /\ UNCHANGED <<recording, truncated, bufLen, stream, done, loopDone,
                   doneClosed, streamSt, nOpened, callPc, stopDone,
                   stopLoopDone, lastRet>>

\* readLoop as it would be if a failed read went round the loop again
RdRead_KeepsLooping(s) ==
    /\ rdPc[s] = "read"
    /\ \E ok \in BOOLEAN :
         IF streamSt[s] = "open"
         THEN /\ rdPc' = [rdPc EXCEPT ![s] = IF ok THEN "lock" ELSE "select"]
              /\ UNCHANGED loopDoneClosed
         ELSE IF ok
              THEN /\ rdPc' = [rdPc EXCEPT ![s] = "crashed"]
                   /\ UNCHANGED loopDoneClosed
              ELSE /\ rdPc' = [rdPc EXCEPT ![s] = "exited"]
                   /\ loopDoneClosed' = loopDoneClosed \cup {s}
    /\ UNCHANGED notRec
    /\ UNCHANGED <<recording, truncated, bufLen, stream, done, loopDone,
                   doneClosed, streamSt, nOpened, callPc, stopDone,
                   stopLoopDone, lastRet>>

\* readLoop: err := stream.Read(); a failed read returns. A read of a
\* stream that was closed under it is a fault of the native library: the
\* call fails or the process dies.
RdRead(s) ==
    /\ rdPc[s] = "read"
    /\ \E ok \in BOOLEAN :
         IF streamSt[s] = "open"
         THEN IF ok
              THEN /\ rdPc' = [rdPc EXCEPT ![s] = "lock"]
                   /\ UNCHANGED loopDoneClosed
              ELSE /\ rdPc' = [rdPc EXCEPT ![s] = "exited"]
                   /\ loopDoneClosed' = loopDoneClosed \cup {s}
         ELSE IF ok
              THEN /\ rdPc' = [rdPc EXCEPT ![s] = "crashed"]
                   /\ UNCHANGED loopDoneClosed
              ELSE /\ rdPc' = [rdPc EXCEPT ![s] = "exited"]
                   /\ loopDoneClosed' = loopDoneClosed \cup {s}
    /\ UNCHANGED notRec
    /\ UNCHANGED <<recording, truncated, bufLen, stream, done, loopDone,
                   doneClosed, streamSt, nOpened, callPc, stopDone,
                   stopLoopDone, lastRet>>

\* readLoop, the section under r.mu: leave when recording was disarmed,
\* append the block, and stop at the duration cap.
RdAppend(s) ==
    /\ rdPc[s] = "lock"
    /\ IF ~recording
       THEN /\ rdPc' = [rdPc EXCEPT ![s] = "exited"]
            /\ loopDoneClosed' = loopDoneClosed \cup {s}
            /\ UNCHANGED <<recording, truncated, bufLen>>
       ELSE /\ bufLen' = bufLen + appended
            /\ IF bufLen + appended >= maxSamples
               THEN /\ truncated' = TRUE
                    /\ recording' = FALSE
                    /\ rdPc' = [rdPc EXCEPT ![s] = "exited"]
                    /\ loopDoneClosed' = loopDoneClosed \cup {s}
               ELSE /\ rdPc' = [rdPc EXCEPT ![s] = "select"]
                    /\ UNCHANGED <<truncated, recording, loopDoneClosed>>
    /\ UNCHANGED notRec
    /\ UNCHANGED <<stream, done, loopDone, doneClosed, streamSt, nOpened,
                   callPc, stopDone, stopLoopDone, lastRet>>

\* Stop as it would be without the wasTruncated test: a session the cap
\* has ended counts as not recording
StopBeginOp_NoTruncCheck ==
    /\ callPc = "idle"
    /\ recording' = FALSE
    /\ stopDone' = done
    /\ stopLoopDone' = loopDone
    /\ IF ~recording
       THEN /\ lastRet' = [NoRet EXCEPT !.op = "stop", !.err = "not recording"]
            /\ callPc' = "idle"
       ELSE /\ lastRet' = [NoRet EXCEPT !.op = "stopping"]
            /\ callPc' = "stop_signal"
    /\ UNCHANGED <<truncated, bufLen, stream, done, loopDone, doneClosed,
                   loopDoneClosed, streamSt, rdPc, nOpened>>

\* Recorder.Stop, first section under r.mu, and the early return
StopBeginOp ==
    /\ callPc = "idle"
    /\ recording' = FALSE
    /\ stopDone' = done
    /\ stopLoopDone' = loopDone
    /\ IF ~recording /\ ~truncated
       THEN /\ lastRet' = [NoRet EXCEPT !.op = "stop", !.err = "not recording"]
            /\ callPc' = "idle"
       ELSE /\ lastRet' = [NoRet EXCEPT !.op = "stopping"]
            /\ callPc' = "stop_signal"
    /\ UNCHANGED <<truncated, bufLen, stream, done, loopDone, doneClosed,
                   loopDoneClosed, streamSt, rdPc, nOpened>>

\* Stop: if done != nil { close(done) }; closing a closed channel panics
StopSignal ==
    /\ callPc = "stop_signal"
    /\ IF stopDone = 0
       THEN /\ callPc' = "stop_wait"
            /\ UNCHANGED doneClosed
       ELSE IF stopDone \in doneClosed
            THEN /\ callPc' = "panic"
                 /\ UNCHANGED doneClosed
            ELSE /\ callPc' = "stop_wait"
                 /\ doneClosed' = doneClosed \cup {stopDone}
    /\ UNCHANGED notRec
    /\ UNCHANGED <<recording, truncated, bufLen, stream, done, loopDone,
                   loopDoneClosed, streamSt, rdPc, nOpened, stopDone,
                   stopLoopDone, lastRet>>

\* Stop as it would be without the join: the stream is closed while the
\* reader may still be inside stream.Read()
StopWait_NoJoin ==
    /\ callPc = "stop_wait"
    /\ callPc' = "stop_close"
    /\ UNCHANGED notRec
    /\ UNCHANGED <<recording, truncated, bufLen, stream, done, loopDone,
                   doneClosed, loopDoneClosed, streamSt, rdPc, nOpened,
                   stopDone, stopLoopDone, lastRet>>

\* Stop: if loopDone != nil { <-loopDone }
StopWait ==
    /\ callPc = "stop_wait"
    /\ stopLoopDone # 0 => stopLoopDone \in loopDoneClosed
    /\ callPc' = "stop_close"
    /\ UNCHANGED notRec
    /\ UNCHANGED <<recording, truncated, bufLen, stream, done, loopDone,
                   doneClosed, loopDoneClosed, streamSt, rdPc, nOpened,
                   stopDone, stopLoopDone, lastRet>>

\* Stop: if r.stream != nil { r.stream.Stop(); r.stream.Close(); r.stream = nil }
StopCloseStream ==
    /\ callPc = "stop_close"
    /\ IF stream # 0
       THEN /\ streamSt' = [streamSt EXCEPT ![stream] = "closed"]
            /\ stream' = 0
       ELSE UNCHANGED <<streamSt, stream>>
    /\ callPc' = "stop_collect"
    /\ UNCHANGED notRec
    /\ UNCHANGED <<recording, truncated, bufLen, done, loopDone, doneClosed,
                   loopDoneClosed, rdPc, nOpened, stopDone, stopLoopDone,
                   lastRet>>

\* Stop: copy the samples under r.mu, then resample and encode
StopCollect ==
    /\ callPc = "stop_collect"
    /\ lastRet' = [op |-> "stop",
                   err |-> IF bufLen = 0 THEN "no audio captured" ELSE "none",
                   sess |-> stopLoopDone,
                   trunc |-> truncated,
                   n |-> bufLen]
    /\ callPc' = "idle"
    /\ UNCHANGED notRec
    /\ UNCHANGED <<recording, truncated, bufLen, stream, done, loopDone,
                   doneClosed, loopDoneClosed, streamSt, rdPc, nOpened,
                   stopDone, stopLoopDone>>

\* The recorder alone, driven by a caller that calls Start and Stop in any
\* order, one call at a time
CallStart == \E outcome \in {"ok", "open_fail", "start_fail"} :
    StartOp(outcome, MaxStreams) /\ UNCHANGED notRec
CallStop == StopBeginOp /\ UNCHANGED notRec

(***************************************************************************)
(* Parts at rest: the value of each part's variables in a specification    *)
(* that does not run it                                                    *)
(***************************************************************************)
HkRest ==
    /\ keyHeld = FALSE
    /\ hkPc = "idle"
    /\ recMu = FALSE
    /\ press = 0
TuiRest ==
    /\ State = "Idle"
    /\ LastTranscript = ""
    /\ LastError = ""
    /\ cmds = {}
    /\ inbox = {}
    /\ hist = {}
\* Listener.Start has not been entered: no event tap, the device open
LsnRest ==
    /\ lsnPc = "init"
    /\ auxPc = "none"
    /\ runLoop = FALSE
    /\ devClosed = FALSE
    /\ errCh = <<>>
    /\ lsnRet = "none"
\* no listener has registered yet
NoIdRet == [op |-> "none", id |-> 0, err |-> "none", reused |-> FALSE]
IdRest ==
    /\ nextListenerID = 0
    /\ freedIDs = <<>>
    /\ listenerMap = {}
    /\ idRet = NoIdRet
\* the files Setup downloads with downloadFile, in its order, their
\* temporary names, and the library downloadAndExtractOnnxRuntime extracts
Downloads == <<"parakeet", "config.json", "vocab.txt">>
TmpOf(dest) ==
    CASE dest = "parakeet" -> "parakeet.tmp"
      [] dest = "config.json" -> "config.json.tmp"
      [] dest = "vocab.txt" -> "vocab.txt.tmp"
OnnxLib == "libonnxruntime.so"
FinalNames == {Downloads[i] : i \in 1..Len(Downloads)} \cup {OnnxLib}
FileNames == FinalNames \cup {TmpOf(Downloads[i]) : i \in 1..Len(Downloads)}
\* a file is absent or holds the chunks written to it so far
Absent == 0 - 1
\* Setup has not been called; nothing is installed
InstRest ==
    /\ files = [n \in FileNames |-> Absent]
    /\ instPc = "idle"
    /\ dlDest = 0
    /\ instRet = "none"
\* a file that does not exist; a file is the number of the Save that wrote
\* it (0: written before the first Save) and the chunks it holds
NoFile == [ver |-> 0, n |-> Absent]
\* config.Save has not been called; there is no configuration file
CfgRest ==
    /\ cfgFile = NoFile
    /\ cfgTmp = NoFile
    /\ staleTmp = 0
    /\ savePc = "idle"
    /\ nSaves = 0
    /\ saveRet = "none"
\* Command.Transcribe has not been called; tmpWav is the number of chunks
\* in the temporary WAV file, or Absent
TrRest ==
    /\ command = "none"
    /\ tmpWav = Absent
    /\ trPc = "idle"
    /\ trWav = 0
    /\ nCalls = 0
    /\ trRet = "none"
\* the built-in tones: name and system prompt (the prompts are abridged)
builtinTones ==
    [k \in {"off", "polite", "formal", "casual", "direct", "token-efficient"} |->
        [Name |-> k, Prompt |-> IF k = "off" THEN "" ELSE "Rewrite: " \o k]]
\* the cycle of the built-in tones
builtinOrder == <<"off", "polite", "formal", "casual", "direct", "token-efficient">>
\* no call into the tone registry has returned yet
NoToneRet == [op |-> "none", arg |-> "", val |-> ""]
\* the tone registry after init(): resetTones() has copied the built-ins
ToneRest ==
    /\ toneOrder = builtinOrder
    /\ tones = builtinTones
    /\ toneRet = NoToneRet
    /\ nRegs = 0
\* the themes in cycle order
themeOrder == <<"synthwave", "everforest", "gruvbox", "monochrome">>
\* the models the post-processing backend lists
ppModels == <<"llama3.2", "mistral">>
\* no key has been read: lastKey is the last key with the State it came in
NoKey == [k |-> "", in |-> ""]
\* the fields of a new Model that the key bindings change; no key yet
KeyFields ==
    /\ themeName = "synthwave"
    /\ ppModelName = "llama3.2"
    /\ serverState = ""
    /\ quit = FALSE
    /\ keyCmd = "nil"
    /\ lastKey = NoKey
    /\ nKeys = 0
\* a Model without a managed server, with the tone off, that has received
\* no key
KeyRest ==
    /\ KeyFields
    /\ toneName = "off"
    /\ Server = FALSE
\* DownmixStereoToMono has not been called
DmRest ==
    /\ stereo = <<>>
    /\ mono = <<>>
    /\ dmDone = FALSE
\* the darwinListener values of a process
TapListeners == {"l1", "l2", "l3"}
\* no listener has been started: l.id has its zero value, no run loop is
\* stored, no watcher waits and no context is cancelled
TapRest ==
    /\ tapPc = [l \in TapListeners |-> "new"]
    /\ tapId = [l \in TapListeners |-> 0]
    /\ tapLoops = [i \in 0..(maxListenerID - 1) |-> "none"]
    /\ tapWatch = [l \in TapListeners |-> "none"]
    /\ tapCtx = [l \in TapListeners |-> FALSE]
    /\ tapStopBy = [l \in TapListeners |-> "none"]
\* the goroutines of the server commands of the TUI: the start of
\* Model.Init and two restarts (which take the places of the supervisor's
\* callers "tui" and "main")
CmdThreads == {"init", "tui", "main"}
\* no server command has been issued and no status check is under way
TsRest ==
    /\ srvCmd = [t \in CmdThreads |-> "none"]
    /\ statusCmds = 0
    /\ statusMsgs = 0
    /\ statusTicks = 0
    /\ tickMsgs = 0
ExtRest ==
    /\ IdRest
    /\ InstRest
    /\ CfgRest
    /\ TrRest
    /\ ToneRest
    /\ KeyRest
    /\ DmRest
    /\ TsRest
    /\ TapRest
ObsRest ==
    /\ platform = "none"
    /\ physDown = FALSE
    /\ physMods = {}
    /\ active = FALSE
    /\ cbLog = <<>>
    /\ nEvents = 0
    /\ LsnRest
\* goroutines that call the supervisor: a command of the TUI (start and
\* restart of the managed server) and run() (start-up and shutdown)
Threads == {"tui", "main"}
ChildIds == 1..MaxSpawns
\* rs is where the thread is inside Server.Restart ("none", "stop": Stop is
\* next or running, "start": Start is next or running, "done": the call
\* that returned last was the Start of a Restart); prev is s.cmd as the
\* Stop of the Restart found it
NoSrvRet == [op |-> "none", err |-> "none", c |-> 0, val |-> FALSE,
             rs |-> "none", prev |-> 0]
SrvRest ==
    /\ cmd = 0
    /\ child = [c \in ChildIds |-> "none"]
    /\ srvPc = [t \in Threads |-> "idle"]
    /\ srvMu = "free"
    /\ sigSent = {}
    /\ killSent = {}
    /\ ctxDone = FALSE
    /\ nSpawned = 0
    /\ srvRet = [t \in Threads |-> NoSrvRet]

(***************************************************************************)
(* SpecRec: the recorder alone                                             *)
(***************************************************************************)
InitRec ==
    /\ nativeSR \in NativeRates
    /\ nativeChannels \in ChannelCounts
    /\ maxDurationSec \in MaxDurations
    /\ RecInit
    /\ HkRest /\ TuiRest /\ ObsRest /\ SrvRest /\ ExtRest

NextRec ==
    \/ CallStart
    \/ CallStop
    \/ StopSignal
    \/ StopWait
    \/ StopCloseStream
    \/ StopCollect
    \/ \E s \in StreamIds : RdSelect(s)
    \/ \E s \in StreamIds : RdRead(s)
    \/ \E s \in StreamIds : RdAppend(s)

SpecRec == InitRec /\ [][NextRec]_vars

\* the goroutine that called Stop goes on whenever it can
FairSpecRec ==
    /\ SpecRec
    /\ WF_vars(StopSignal) /\ WF_vars(StopWait)
    /\ WF_vars(StopCloseStream) /\ WF_vars(StopCollect)

(***************************************************************************)
(* tui.Model: Update, one operator per message type. Each states the new   *)
(* model fields and the commands the handler returns (cmds); hist records  *)
(* what the coordinator has processed. The audio-level tick, the status    *)
(* probes, the chimes and the debug log touch none of these fields and are *)
(* left out.                                                               *)
(***************************************************************************)
Msg(type, p, arg) == [type |-> type, p |-> p, arg |-> arg]
Cmd(kind, p, arg) == [kind |-> kind, p |-> p, arg |-> arg]

\* case RecordingStartedMsg
UpdRecordingStarted(m) ==
    /\ State' = "Recording"
    /\ LastError' = ""
    /\ hist' = hist \cup {<<"obsStarted", m.p>>}
    /\ UNCHANGED <<LastTranscript, cmds>>

\* case RecordingStoppedMsg: returns m.transcribeCmd(msg.WavData)
UpdRecordingStopped(m) ==
    /\ State' = "Transcribing"
    /\ cmds' = cmds \cup {Cmd("transcribe", m.p, "wav")}
    /\ hist' = hist \cup {<<"obsStopped", m.p>>, <<"transcribeStart", m.p>>}
    /\ UNCHANGED <<LastTranscript, LastError>>

\* case TranscriptionResultMsg: an empty text skips the paste
UpdTranscriptionResult(m) ==
    /\ State' = "Idle"
    /\ LastTranscript' = m.arg
    /\ IF m.arg = ""
       THEN UNCHANGED <<cmds, hist>>
       ELSE /\ cmds' = cmds \cup {Cmd("paste", m.p, m.arg)}
            /\ hist' = hist \cup {<<"pasteStart", m.p>>}
    /\ UNCHANGED LastError

\* case TranscriptionErrorMsg: returns scheduleErrorTimeout(). hist keeps,
\* as "errEntry", the session whose error made the latest entry into Error.
UpdTranscriptionError(m) ==
    /\ State' = "Error"
    /\ LastError' = m.arg
    /\ cmds' = cmds \cup {Cmd("errorTimer", m.p, m.arg)}
    /\ hist' = {h \in hist : h[1] # "errEntry"}
                  \cup {<<"obsError", m.p>>, <<"errEntry", m.p>>}
    /\ UNCHANGED LastTranscript

\* the errorTimeoutMsg handler as it would be if it forgot to leave Error
UpdErrorTimeout_KeepsError(m) ==
    /\ LastError' = ""
    /\ hist' = hist \cup {<<"errTimeout", m.p>>}
    /\ UNCHANGED <<State, LastTranscript, cmds>>

\* case errorTimeoutMsg
UpdErrorTimeout(m) ==
    /\ State' = "Idle"
    /\ LastError' = ""
    /\ hist' = hist \cup {<<"errTimeout", m.p>>}
    /\ UNCHANGED <<LastTranscript, cmds>>

\* Model.Update: the switch on the message type
Update(m) ==
    CASE m.type = "RecordingStartedMsg" -> UpdRecordingStarted(m)
      [] m.type = "RecordingStoppedMsg" -> UpdRecordingStopped(m)
      [] m.type = "TranscriptionResultMsg" -> UpdTranscriptionResult(m)
      [] m.type = "TranscriptionErrorMsg" -> UpdTranscriptionError(m)
      [] m.type = "errorTimeoutMsg" -> UpdErrorTimeout(m)

(***************************************************************************)
(* The Bubble Tea runtime: commands run in goroutines of their own and     *)
(* send their message to the event loop, which handles one message at a    *)
(* time; messages of different goroutines arrive in any order.             *)
(***************************************************************************)
notTui == <<recCfg, recVars, hkVars, obsVars, lsnVars, srvVars, extVars>>

\* texts a transcription backend returns: words, nothing, or the marker
\* whisper-style backends give for silence
Transcripts == {"words", "", "[BLANK_AUDIO]"}

\* transcribeCmd as it would be if it dropped the error of Transcribe and
\* sent the (empty or partial) text as a result
CmdTranscribe_DropsError(c) ==
    /\ c \in cmds /\ c.kind = "transcribe"
    /\ \E outcome \in Transcripts \cup {"error"} :
         IF outcome = "error"
         THEN /\ inbox' = inbox \cup {Msg("TranscriptionResultMsg", c.p, "partial")}
              /\ UNCHANGED hist
         ELSE /\ inbox' = inbox \cup {Msg("TranscriptionResultMsg", c.p, outcome)}
              /\ hist' = hist \cup {<<"transcribeOk", c.p>>}
    /\ cmds' = cmds \ {c}
    /\ UNCHANGED <<State, LastTranscript, LastError>>
    /\ UNCHANGED notTui

\* transcribeCmd: Transcriber.Transcribe returns a text, possibly empty, or
\* an error
CmdTranscribe(c) ==
    /\ c \in cmds /\ c.kind = "transcribe"
    /\ \E outcome \in Transcripts \cup {"error"} :
         IF outcome = "error"
         THEN /\ inbox' = inbox \cup {Msg("TranscriptionErrorMsg", c.p, "transcribe")}
              /\ UNCHANGED hist
         ELSE /\ inbox' = inbox \cup {Msg("TranscriptionResultMsg", c.p, outcome)}
              /\ hist' = hist \cup {<<"transcribeOk", c.p>>}
    /\ cmds' = cmds \ {c}
    /\ UNCHANGED <<State, LastTranscript, LastError>>
    /\ UNCHANGED notTui

\* pasteCmd: clipboard.PasteText succeeds (no message) or fails
CmdPaste(c) ==
    /\ c \in cmds /\ c.kind = "paste"
    /\ \E ok \in BOOLEAN :
         IF ok
         THEN /\ hist' = hist \cup {<<"injected", c.p>>}
              /\ UNCHANGED inbox
         ELSE /\ inbox' = inbox \cup {Msg("TranscriptionErrorMsg", c.p, "paste")}
              /\ UNCHANGED hist
    /\ cmds' = cmds \ {c}
    /\ UNCHANGED <<State, LastTranscript, LastError>>
    /\ UNCHANGED notTui

\* scheduleErrorTimeout: tea.Tick(5s) sends errorTimeoutMsg
CmdErrorTimer(c) ==
    /\ c \in cmds /\ c.kind = "errorTimer"
    /\ inbox' = inbox \cup {Msg("errorTimeoutMsg", c.p, c.arg)}
    /\ cmds' = cmds \ {c}
    /\ UNCHANGED <<State, LastTranscript, LastError, hist>>
    /\ UNCHANGED notTui

\* the event loop takes a message a command has sent and runs Update on it
Deliver(m) ==
    /\ m \in inbox
    /\ inbox' = inbox \ {m}
    /\ Update(m)
    /\ UNCHANGED notTui

(***************************************************************************)
(* run(): the listener goroutine. The listener calls onDown and onUp one   *)
(* after the other from the goroutine that reads the key events; each      *)
(* callback takes recMu, calls the recorder and sends its message with     *)
(* p.Send, which returns when the event loop has taken the message.        *)
(***************************************************************************)
\* the key goes down and the listener calls onDown: recMu.Lock()
PressOp(limit) ==
    /\ hkPc = "idle" /\ ~keyHeld
    /\ press < limit
    /\ keyHeld' = TRUE
    /\ press' = press + 1
    /\ hkPc' = "down_call"
    /\ recMu' = TRUE
    /\ UNCHANGED <<recCfg, recVars, tuiVars, obsVars, lsnVars, srvVars, extVars>>

\* onDown: rec.Start()
HkStart ==
    /\ hkPc = "down_call"
    /\ \E outcome \in {"ok", "open_fail", "start_fail"} :
         /\ StartOp(outcome, MaxPresses)
         /\ hist' = hist \cup {<<"startDone", press>>}
                         \cup (IF ~recording /\ outcome = "ok"
                               THEN {<<"startOk", press>>} ELSE {})
    /\ hkPc' = "down_ret"
    /\ UNCHANGED <<keyHeld, recMu, press>>
    /\ UNCHANGED <<State, LastTranscript, LastError, cmds, inbox>>
    /\ UNCHANGED <<recCfg, obsVars, lsnVars, srvVars, extVars>>

\* onDown as it would be if it handed the message to another goroutine
\* (go p.Send(...)) instead of sending it itself
HkDownRet_AsyncSend ==
    /\ hkPc = "down_ret"
    /\ IF lastRet.err # "none"
       THEN UNCHANGED tuiVars
       ELSE /\ inbox' = inbox \cup {Msg("RecordingStartedMsg", press, "")}
            /\ UNCHANGED <<State, LastTranscript, LastError, cmds, hist>>
    /\ hkPc' = "idle"
    /\ recMu' = FALSE
    /\ UNCHANGED <<keyHeld, press>>
    /\ UNCHANGED <<recCfg, recVars, obsVars, lsnVars, srvVars, extVars>>

\* onDown: on an error of Start return, else p.Send(RecordingStartedMsg{});
\* the deferred recMu.Unlock()
HkDownRet ==
    /\ hkPc = "down_ret"
    /\ IF lastRet.err # "none"
       THEN UNCHANGED tuiVars
       ELSE /\ Update(Msg("RecordingStartedMsg", press, ""))
            /\ UNCHANGED inbox
    /\ hkPc' = "idle"
    /\ recMu' = FALSE
    /\ UNCHANGED <<keyHeld, press>>
    /\ UNCHANGED <<recCfg, recVars, obsVars, lsnVars, srvVars, extVars>>

\* the key goes up and the listener calls onUp: recMu.Lock()
Release ==
    /\ hkPc = "idle" /\ keyHeld
    /\ keyHeld' = FALSE
    /\ hkPc' = "up_call"
    /\ recMu' = TRUE
    /\ UNCHANGED press
    /\ UNCHANGED <<recCfg, recVars, tuiVars, obsVars, lsnVars, srvVars, extVars>>

\* onUp: rec.Stop() is entered
HkStop ==
    /\ hkPc = "up_call"
    /\ StopBeginOp
    /\ hkPc' = "up_wait"
    /\ hist' = hist \cup {<<"stopCall", press>>}
    /\ UNCHANGED <<keyHeld, recMu, press>>
    /\ UNCHANGED <<State, LastTranscript, LastError, cmds, inbox>>
    /\ UNCHANGED <<recCfg, obsVars, lsnVars, srvVars, extVars>>

\* onUp: rec.Stop() has returned; send TranscriptionErrorMsg on an error,
\* else RecordingStoppedMsg with the WAV data; the deferred recMu.Unlock()
HkUpRet ==
    /\ hkPc = "up_wait" /\ callPc = "idle"
    /\ IF lastRet.err # "none"
       THEN Update(Msg("TranscriptionErrorMsg", press, "recording"))
       ELSE Update(Msg("RecordingStoppedMsg", press, "wav"))
    /\ UNCHANGED inbox
    /\ hkPc' = "idle"
    /\ recMu' = FALSE
    /\ UNCHANGED <<keyHeld, press>>
    /\ UNCHANGED <<recCfg, recVars, obsVars, lsnVars, srvVars, extVars>>

(***************************************************************************)
(* SpecHotkey: the hotkey observers. The evdev listener reads the events   *)
(* of one device and looks at the bound key code; the CGEventTap callback  *)
(* gets keyDown, keyUp and flagsChanged events with the modifier flags.    *)
(* cbLog is the sequence of callbacks the observer has fired.              *)
(***************************************************************************)
Platforms == {"linux", "darwinKey", "darwinMod"}
AllMods == {"cmd", "opt"}
KeyCodes == {"bound", "other"}

notObs == <<recCfg, recVars, hkVars, tuiVars, lsnVars, srvVars, extVars>>

\* darwinListener.modOnly and darwinListener.modMask of the configured combo
modOnly == platform = "darwinMod"
modMask == IF modOnly THEN {"cmd", "opt"} ELSE {"cmd"}

\* linuxListener.Start: the body of the read loop for one event
linuxEvent(type, code, value) ==
    /\ IF type # "EV_KEY" \/ code # "bound"
       THEN UNCHANGED cbLog
       ELSE CASE value = 1 -> cbLog' = Append(cbLog, "onDown")
              [] value = 0 -> cbLog' = Append(cbLog, "onUp")
              [] OTHER -> UNCHANGED cbLog
    /\ UNCHANGED active

\* hotkeyEventCallback
hotkeyEventCallback(eventType, keycode, gotMods) ==
    IF modOnly
    THEN IF eventType # "flagsChanged"
         THEN UNCHANGED <<active, cbLog>>
         ELSE IF gotMods = modMask
              THEN IF ~active
                   THEN active' = TRUE /\ cbLog' = Append(cbLog, "onDown")
                   ELSE UNCHANGED <<active, cbLog>>
              ELSE IF active
                   THEN active' = FALSE /\ cbLog' = Append(cbLog, "onUp")
                   ELSE UNCHANGED <<active, cbLog>>
    ELSE IF keycode # "bound"
         THEN UNCHANGED <<active, cbLog>>
         ELSE CASE eventType = "keyDown" ->
                     IF ~active /\ gotMods = modMask
                     THEN active' = TRUE /\ cbLog' = Append(cbLog, "onDown")
                     ELSE UNCHANGED <<active, cbLog>>
                [] eventType = "keyUp" ->
                     IF active
                     THEN active' = FALSE /\ cbLog' = Append(cbLog, "onUp")
                     ELSE UNCHANGED <<active, cbLog>>
                [] OTHER -> UNCHANGED <<active, cbLog>>

\* the kernel reports the bound key going down (value 1)
LinuxKeyDown ==
    /\ platform = "linux" /\ nEvents < MaxEvents
    /\ ~physDown
    /\ physDown' = TRUE
    /\ linuxEvent("EV_KEY", "bound", 1)
    /\ nEvents' = nEvents + 1
    /\ UNCHANGED <<platform, physMods>> /\ UNCHANGED notObs

\* the kernel reports the bound key going up (value 0)
LinuxKeyUp ==
    /\ platform = "linux" /\ nEvents < MaxEvents
    /\ physDown
    /\ physDown' = FALSE
    /\ linuxEvent("EV_KEY", "bound", 0)
    /\ nEvents' = nEvents + 1
    /\ UNCHANGED <<platform, physMods>> /\ UNCHANGED notObs

\* auto-repeat of the held key (value 2)
LinuxKeyRepeat ==
    /\ platform = "linux" /\ nEvents < MaxEvents
    /\ physDown
    /\ linuxEvent("EV_KEY", "bound", 2)
    /\ nEvents' = nEvents + 1
    /\ UNCHANGED <<platform, physDown, physMods>> /\ UNCHANGED notObs

\* an event of another key or of another type (EV_SYN, EV_MSC)
LinuxOtherEvent ==
    /\ platform = "linux" /\ nEvents < MaxEvents
    /\ \E ev \in {<<"EV_KEY", "other">>, <<"EV_SYN", "bound">>} :
       \E value \in 0..2 : linuxEvent(ev[1], ev[2], value)
    /\ nEvents' = nEvents + 1
    /\ UNCHANGED <<platform, physDown, physMods>> /\ UNCHANGED notObs

\* a modifier goes down or up: flagsChanged with the new flags
DarwinFlagsChanged ==
    /\ platform \in {"darwinKey", "darwinMod"} /\ nEvents < MaxEvents
    /\ \E m \in AllMods :
         /\ physMods' = IF m \in physMods THEN physMods \ {m} ELSE physMods \cup {m}
         /\ hotkeyEventCallback("flagsChanged", "other", physMods')
    /\ nEvents' = nEvents + 1
    /\ UNCHANGED <<platform, physDown>> /\ UNCHANGED notObs

\* a key goes down, or a held key repeats: keyDown with the current flags
DarwinKeyDown ==
    /\ platform \in {"darwinKey", "darwinMod"} /\ nEvents < MaxEvents
    /\ \E k \in KeyCodes :
         /\ physDown' = IF k = "bound" THEN TRUE ELSE physDown
         /\ hotkeyEventCallback("keyDown", k, physMods)
    /\ nEvents' = nEvents + 1
    /\ UNCHANGED <<platform, physMods>> /\ UNCHANGED notObs

\* a key that is down goes up: keyUp with the current flags
DarwinKeyUp ==
    /\ platform \in {"darwinKey", "darwinMod"} /\ nEvents < MaxEvents
    /\ \E k \in KeyCodes :
         /\ k = "bound" => physDown
         /\ physDown' = IF k = "bound" THEN FALSE ELSE physDown
         /\ hotkeyEventCallback("keyUp", k, physMods)
    /\ nEvents' = nEvents + 1
    /\ UNCHANGED <<platform, physMods>> /\ UNCHANGED notObs

\* the observer starts fresh; the keys are in whatever position the user
\* holds them when the listener begins to read
InitHotkey ==
    /\ platform \in Platforms
    /\ physDown \in BOOLEAN
    /\ physMods \in SUBSET AllMods
    /\ active = FALSE
    /\ cbLog = <<>>
    /\ nEvents = 0
    /\ LsnRest
    /\ nativeSR = SmallestRate /\ nativeChannels = 1 /\ maxDurationSec = 1
    /\ RecInit /\ HkRest /\ TuiRest /\ SrvRest /\ ExtRest

NextHotkey ==
    \/ LinuxKeyDown
    \/ LinuxKeyUp
    \/ LinuxKeyRepeat
    \/ LinuxOtherEvent
    \/ DarwinFlagsChanged
    \/ DarwinKeyDown
    \/ DarwinKeyUp

SpecHotkey == InitHotkey /\ [][NextHotkey]_vars

(***************************************************************************)
(* SpecServer: server.Server. cmd is s.cmd, named by the number of the     *)
(* spawn that made it (0 is nil); child[c] is the state of process c:      *)
(* "none", "alive", "exited" (terminated and not yet waited for) or        *)
(* "reaped" (cmd.Wait has returned). srvMu is s.mu, held from Lock to the  *)
(* deferred Unlock. srvRet[t] is what the last call of thread t returned.  *)
(***************************************************************************)
notSrv == <<recCfg, recVars, hkVars, tuiVars, obsVars, lsnVars, extVars>>

\* the record of a call that is in progress, of a Stop that returns and of
\* a Start that returns: Restart goes from its Stop on to its Start
Frame(t) ==
    [NoSrvRet EXCEPT !.rs = IF srvRet[t].rs = "done" THEN "none" ELSE srvRet[t].rs,
                     !.prev = srvRet[t].prev]
StopRet(t) ==
    [NoSrvRet EXCEPT !.rs = IF srvRet[t].rs = "stop" THEN "start" ELSE "none",
                     !.prev = IF srvRet[t].rs = "stop" THEN cmd ELSE 0]
StartRet(t) ==
    [NoSrvRet EXCEPT !.rs = IF srvRet[t].rs = "start" THEN "done" ELSE "none",
                     !.prev = srvRet[t].prev]

\* Start as it would be without the test of s.cmd
StartBegin_NoCheck(t) ==
    /\ srvPc[t] = "idle" /\ srvMu = "free"
    /\ srvRet[t].rs # "stop"
    /\ nSpawned < MaxSpawns
    /\ \E started \in BOOLEAN :
         IF ~started
         THEN /\ srvRet' = [srvRet EXCEPT ![t] =
                               [StartRet(t) EXCEPT !.op = "start", !.err = "start parakeet"]]
              /\ UNCHANGED <<cmd, child, srvPc, srvMu, nSpawned>>
         ELSE /\ nSpawned' = nSpawned + 1
              /\ child' = [child EXCEPT ![nSpawned + 1] = "alive"]
              /\ cmd' = nSpawned + 1
              /\ srvPc' = [srvPc EXCEPT ![t] = "start_poll"]
              /\ srvMu' = t
              /\ srvRet' = [srvRet EXCEPT ![t] =
                               [Frame(t) EXCEPT !.op = "starting", !.c = nSpawned + 1]]
    /\ UNCHANGED <<sigSent, killSent, ctxDone>>
    /\ UNCHANGED notSrv

\* Server.Start up to the health poll: Lock; the "already running" test;
\* cmd.Start(); s.cmd = cmd
StartBegin(t) ==
    /\ srvPc[t] = "idle" /\ srvMu = "free"
    /\ srvRet[t].rs # "stop"
    /\ IF cmd # 0
       THEN /\ srvRet' = [srvRet EXCEPT ![t] =
                             [StartRet(t) EXCEPT !.op = "start", !.err = "already running",
                                              !.c = cmd]]
            /\ UNCHANGED <<cmd, child, srvPc, srvMu, nSpawned>>
       ELSE /\ nSpawned < MaxSpawns
            /\ \E started \in BOOLEAN :
                 IF ~started
                 THEN /\ srvRet' = [srvRet EXCEPT ![t] =
                                       [StartRet(t) EXCEPT !.op = "start",
                                                        !.err = "start parakeet"]]
                      /\ UNCHANGED <<cmd, child, srvPc, srvMu, nSpawned>>
                 ELSE /\ nSpawned' = nSpawned + 1
                      /\ child' = [child EXCEPT ![nSpawned + 1] = "alive"]
                      /\ cmd' = nSpawned + 1
                      /\ srvPc' = [srvPc EXCEPT ![t] = "start_poll"]
                      /\ srvMu' = t
                      /\ srvRet' = [srvRet EXCEPT ![t] =
                                       [Frame(t) EXCEPT !.op = "starting",
                                                        !.c = nSpawned + 1]]
    /\ UNCHANGED <<sigSent, killSent, ctxDone>>
    /\ UNCHANGED notSrv

\* Server.Start, the wait of the health poll: the select returns ctx.Err()
\* when the context is cancelled, and lets the probe go after 500 ms
\* otherwise; s.mu is released on return
StartPoll(t) ==
    /\ srvPc[t] = "start_poll"
    /\ IF ctxDone
       THEN /\ srvRet' = [srvRet EXCEPT ![t] =
                            [StartRet(t) EXCEPT !.op = "start",
                                                !.err = "context canceled", !.c = cmd]]
            /\ srvPc' = [srvPc EXCEPT ![t] = "idle"]
            /\ srvMu' = "free"
       ELSE /\ srvPc' = [srvPc EXCEPT ![t] = "start_probe"]
            /\ UNCHANGED <<srvRet, srvMu>>
    /\ UNCHANGED <<cmd, child, sigSent, killSent, ctxDone, nSpawned>>
    /\ UNCHANGED notSrv

\* the probe as it would be if any answer counted as ready, whether or not
\* the process is there to give it
StartProbe_AnyAnswer(t) ==
    /\ srvPc[t] = "start_probe"
    /\ \E ok \in BOOLEAN :
         IF ok
         THEN /\ srvRet' = [srvRet EXCEPT ![t] =
                              [StartRet(t) EXCEPT !.op = "start", !.c = cmd]]
              /\ srvPc' = [srvPc EXCEPT ![t] = "idle"]
              /\ srvMu' = "free"
         ELSE /\ srvPc' = [srvPc EXCEPT ![t] = "start_poll"]
              /\ UNCHANGED <<srvRet, srvMu>>
    /\ UNCHANGED <<cmd, child, sigSent, killSent, ctxDone, nSpawned>>
    /\ UNCHANGED notSrv

\* Server.Start, the probe: http.Get(healthURL), which does not take the
\* context; 200 from the server returns nil, anything else goes round the
\* loop
StartProbe(t) ==
    /\ srvPc[t] = "start_probe"
    /\ \E ok \in BOOLEAN :
         IF ok
         THEN /\ child[cmd] = "alive"
              /\ srvRet' = [srvRet EXCEPT ![t] =
                              [StartRet(t) EXCEPT !.op = "start", !.c = cmd]]
              /\ srvPc' = [srvPc EXCEPT ![t] = "idle"]
              /\ srvMu' = "free"
         ELSE /\ srvPc' = [srvPc EXCEPT ![t] = "start_poll"]
              /\ UNCHANGED <<srvRet, srvMu>>
    /\ UNCHANGED <<cmd, child, sigSent, killSent, ctxDone, nSpawned>>
    /\ UNCHANGED notSrv

\* Server.Start, the head of the loop once the 120 s have passed
StartDeadline(t) ==
    /\ srvPc[t] = "start_poll"
    /\ srvRet' = [srvRet EXCEPT ![t] =
                     [StartRet(t) EXCEPT !.op = "start", !.err = "not healthy", !.c = cmd]]
    /\ srvPc' = [srvPc EXCEPT ![t] = "idle"]
    /\ srvMu' = "free"
    /\ UNCHANGED <<cmd, child, sigSent, killSent, ctxDone, nSpawned>>
    /\ UNCHANGED notSrv

\* Server.Stop up to the select: Lock; nil test; Signal(os.Interrupt); the
\* goroutine that calls cmd.Wait is started
StopBegin(t) ==
    /\ srvPc[t] = "idle" /\ srvMu = "free"
    /\ srvRet[t].rs # "start"
    /\ IF cmd = 0
       THEN /\ srvRet' = [srvRet EXCEPT ![t] = [StopRet(t) EXCEPT !.op = "stop"]]
            /\ UNCHANGED <<srvPc, srvMu, sigSent>>
       ELSE /\ sigSent' = sigSent \cup {cmd}
            /\ srvPc' = [srvPc EXCEPT ![t] = "stop_wait"]
            /\ srvMu' = t
            /\ srvRet' = [srvRet EXCEPT ![t] =
                             [Frame(t) EXCEPT !.op = "stopping", !.c = cmd]]
    /\ UNCHANGED <<cmd, child, killSent, ctxDone, nSpawned>>
    /\ UNCHANGED notSrv

\* the goroutine of Stop: s.cmd.Wait() returns once the process has
\* terminated, and its result goes to done
WaitReturns ==
    /\ \E t \in Threads : srvPc[t] \in {"stop_wait", "stop_killed"}
    /\ child[cmd] = "exited"
    /\ child' = [child EXCEPT ![cmd] = "reaped"]
    /\ UNCHANGED <<cmd, srvPc, srvMu, sigSent, killSent, ctxDone, nSpawned, srvRet>>
    /\ UNCHANGED notSrv

\* Stop as it would be if the timeout branch returned without reading done
StopTimeout_NoJoin(t) ==
    /\ srvPc[t] = "stop_wait"
    /\ killSent' = killSent \cup {cmd}
    /\ cmd' = 0
    /\ srvPc' = [srvPc EXCEPT ![t] = "idle"]
    /\ srvMu' = "free"
    /\ srvRet' = [srvRet EXCEPT ![t] = [StopRet(t) EXCEPT !.op = "stop", !.c = cmd]]
    /\ UNCHANGED <<child, sigSent, ctxDone, nSpawned>>
    /\ UNCHANGED notSrv

\* Server.Stop, case <-time.After(5 * time.Second): s.cmd.Process.Kill()
StopTimeout(t) ==
    /\ srvPc[t] = "stop_wait"
    /\ killSent' = killSent \cup {cmd}
    /\ srvPc' = [srvPc EXCEPT ![t] = "stop_killed"]
    /\ UNCHANGED <<cmd, child, srvMu, sigSent, ctxDone, nSpawned, srvRet>>
    /\ UNCHANGED notSrv

\* Server.Stop, case <-done of the select, or the <-done after Kill; then
\* s.cmd = nil, return nil and the deferred Unlock
StopJoined(t) ==
    /\ srvPc[t] \in {"stop_wait", "stop_killed"}
    /\ child[cmd] = "reaped"
    /\ cmd' = 0
    /\ srvPc' = [srvPc EXCEPT ![t] = "idle"]
    /\ srvMu' = "free"
    /\ srvRet' = [srvRet EXCEPT ![t] = [StopRet(t) EXCEPT !.op = "stop", !.c = cmd]]
    /\ UNCHANGED <<child, sigSent, killSent, ctxDone, nSpawned>>
    /\ UNCHANGED notSrv

\* Server.Restart is entered: s.Stop() is next, then s.Start(ctx); the
\* mutex is free between the two
RestartCall(t) ==
    /\ srvPc[t] = "idle"
    /\ srvRet[t].rs \in {"none", "done"}
    /\ srvRet' = [srvRet EXCEPT ![t] = [NoSrvRet EXCEPT !.op = "restart", !.rs = "stop"]]
    /\ UNCHANGED <<cmd, child, srvPc, srvMu, sigSent, killSent, ctxDone, nSpawned>>
    /\ UNCHANGED notSrv

\* the value Server.Running can return: false without a process; with one,
\* whether signal 0 can be delivered (a process that has terminated and was
\* not waited for still takes it)
RunningValues ==
    IF cmd = 0 THEN {FALSE}
    ELSE IF child[cmd] = "reaped" THEN {FALSE}
    ELSE {TRUE}

\* Server.Running
CallRunning(t) ==
    /\ srvPc[t] = "idle" /\ srvMu = "free"
    /\ srvRet[t].rs \in {"none", "done"}
    /\ \E v \in RunningValues :
         srvRet' = [srvRet EXCEPT ![t] =
                       [NoSrvRet EXCEPT !.op = "running", !.val = v, !.c = cmd]]
    /\ UNCHANGED <<cmd, child, srvPc, srvMu, sigSent, killSent, ctxDone, nSpawned>>
    /\ UNCHANGED notSrv

\* the process ends on SIGINT (a process may also ignore it and go on)
ChildExitsOnSignal ==
    /\ \E c \in ChildIds :
         /\ child[c] = "alive" /\ c \in sigSent
         /\ child' = [child EXCEPT ![c] = "exited"]
    /\ UNCHANGED <<cmd, srvPc, srvMu, sigSent, killSent, ctxDone, nSpawned, srvRet>>
    /\ UNCHANGED notSrv

\* SIGKILL ends the process: sent by Stop, or by exec.CommandContext once
\* the context is cancelled
ChildKilled ==
    /\ \E c \in ChildIds :
         /\ child[c] = "alive" /\ (c \in killSent \/ ctxDone)
         /\ child' = [child EXCEPT ![c] = "exited"]
    /\ UNCHANGED <<cmd, srvPc, srvMu, sigSent, killSent, ctxDone, nSpawned, srvRet>>
    /\ UNCHANGED notSrv

\* the process ends by itself (a crash, a failed model load)
ChildCrashes ==
    /\ \E c \in ChildIds :
         /\ child[c] = "alive"
         /\ child' = [child EXCEPT ![c] = "exited"]
    /\ UNCHANGED <<cmd, srvPc, srvMu, sigSent, killSent, ctxDone, nSpawned, srvRet>>
    /\ UNCHANGED notSrv

\* run(): the context of the program is cancelled at shutdown
CtxCancel ==
    /\ ~ctxDone
    /\ ctxDone' = TRUE
    /\ UNCHANGED <<cmd, child, srvPc, srvMu, sigSent, killSent, nSpawned, srvRet>>
    /\ UNCHANGED notSrv

InitServer ==
    /\ SrvRest
    /\ nativeSR = SmallestRate /\ nativeChannels = 1 /\ maxDurationSec = 1
    /\ RecInit /\ HkRest /\ TuiRest /\ ObsRest /\ ExtRest

NextServer ==
    \/ \E t \in Threads : StartBegin(t)
    \/ \E t \in Threads : StartPoll(t)
    \/ \E t \in Threads : StartProbe(t)
    \/ \E t \in Threads : StartDeadline(t)
    \/ \E t \in Threads : StopBegin(t)
    \/ WaitReturns
    \/ \E t \in Threads : StopTimeout(t)
    \/ \E t \in Threads : StopJoined(t)
    \/ \E t \in Threads : CallRunning(t)
    \/ \E t \in Threads : RestartCall(t)
    \/ ChildExitsOnSignal
    \/ ChildKilled
    \/ ChildCrashes
    \/ CtxCancel

SpecServer == InitServer /\ [][NextServer]_vars

\* every goroutine of the program that can take a step takes one, the
\* timer of Stop fires, the clock passes the deadline of Start, and SIGKILL
\* ends a process
FairSpecServer ==
    /\ SpecServer
    /\ WF_vars(WaitReturns)
    /\ WF_vars(ChildKilled)
    /\ \A t \in Threads :
         /\ WF_vars(StartPoll(t))
         /\ WF_vars(StartProbe(t))
         /\ SF_vars(StartDeadline(t))
         /\ WF_vars(StopTimeout(t))
         /\ WF_vars(StopJoined(t))

(***************************************************************************)
(* FairSpecListen: Listener.Start until it returns. lsnPc is the position  *)
(* of the call, auxPc that of the goroutine it starts (the watcher of the  *)
(* context on darwin, the reader of the device on linux), runLoop is       *)
(* runLoops[id] # NULL, errCh the channel of the linux reader. Key events  *)
(* reach the callbacks while the event source delivers.                    *)
(***************************************************************************)
notLsn == <<recCfg, recVars, hkVars, tuiVars, obsVars, srvVars, extVars>>

\* darwinListener.Start up to C.startEventTap: the id is allocated and the
\* goroutine that waits for ctx.Done() is started
DarwinStart ==
    /\ platform # "linux" /\ lsnPc = "init"
    /\ lsnPc' = "tap_create"
    /\ auxPc' = "waiting"
    /\ UNCHANGED <<runLoop, devClosed, errCh, lsnRet>>
    /\ UNCHANGED notLsn

\* startEventTap: CGEventTapCreate; NULL returns -1 and Start returns the
\* error; otherwise eventTaps[id] and runLoops[id] are stored
TapCreate ==
    /\ platform # "linux" /\ lsnPc = "tap_create"
    /\ \E ok \in BOOLEAN :
         IF ok
         THEN /\ runLoop' = TRUE
              /\ lsnPc' = "tap_ready"
              /\ UNCHANGED lsnRet
         ELSE /\ lsnPc' = "returned"
              /\ lsnRet' = "event tap"
              /\ UNCHANGED runLoop
    /\ UNCHANGED <<auxPc, devClosed, errCh>>
    /\ UNCHANGED notLsn

\* startEventTap: the source is added, the tap enabled, CFRunLoopRun entered
TapRun ==
    /\ platform # "linux" /\ lsnPc = "tap_ready"
    /\ lsnPc' = "running"
    /\ UNCHANGED <<auxPc, runLoop, devClosed, errCh, lsnRet>>
    /\ UNCHANGED notLsn

\* the watcher: <-ctx.Done(), then stopEventTap: nothing while runLoops[id]
\* is NULL; CFRunLoopStop otherwise, which ends a run loop that is running
\* and is without effect on one that is not
WatchFire ==
    /\ platform # "linux" /\ auxPc = "waiting" /\ ctxDone
    /\ auxPc' = "done"
    /\ lsnPc' = IF runLoop /\ lsnPc = "running" THEN "cleanup" ELSE lsnPc
    /\ UNCHANGED <<runLoop, devClosed, errCh, lsnRet>>
    /\ UNCHANGED notLsn

\* startEventTap after CFRunLoopRun: the tap is disabled and released,
\* runLoops[id] cleared; Start frees the id and returns ctx.Err()
TapCleanup ==
    /\ platform # "linux" /\ lsnPc = "cleanup"
    /\ runLoop' = FALSE
    /\ lsnPc' = "returned"
    /\ lsnRet' = IF ctxDone THEN "context canceled" ELSE "none"
    /\ UNCHANGED <<auxPc, devClosed, errCh>>
    /\ UNCHANGED notLsn

\* linuxListener.Start up to the select: the reader goroutine is started
LinuxStart ==
    /\ platform = "linux" /\ lsnPc = "init"
    /\ lsnPc' = "select"
    /\ auxPc' = "read"
    /\ UNCHANGED <<runLoop, devClosed, errCh, lsnRet>>
    /\ UNCHANGED notLsn

\* the reader: ReadOne fails, because Stop has closed the device (nil is
\* sent) or because the device has failed (the error is sent)
LinuxReadFails ==
    /\ platform = "linux" /\ auxPc = "read"
    /\ errCh' = <<IF devClosed THEN "none" ELSE "read event">>
    /\ auxPc' = "done"
    /\ UNCHANGED <<lsnPc, runLoop, devClosed, lsnRet>>
    /\ UNCHANGED notLsn

\* Start, select: <-ctx.Done(), then l.Stop() closes the device
LinuxSelectCtx ==
    /\ platform = "linux" /\ lsnPc = "select" /\ ctxDone
    /\ devClosed' = TRUE
    /\ lsnPc' = "join"
    /\ UNCHANGED <<auxPc, runLoop, errCh, lsnRet>>
    /\ UNCHANGED notLsn

\* Start after l.Stop(): <-errCh, return ctx.Err()
LinuxJoin ==
    /\ platform = "linux" /\ lsnPc = "join" /\ errCh # <<>>
    /\ errCh' = <<>>
    /\ lsnPc' = "returned"
    /\ lsnRet' = "context canceled"
    /\ UNCHANGED <<auxPc, runLoop, devClosed>>
    /\ UNCHANGED notLsn

\* Start, select: the reader has sent its error first
LinuxSelectErr ==
    /\ platform = "linux" /\ lsnPc = "select" /\ errCh # <<>>
    /\ lsnRet' = Head(errCh)
    /\ errCh' = <<>>
    /\ lsnPc' = "returned"
    /\ UNCHANGED <<auxPc, runLoop, devClosed>>
    /\ UNCHANGED notLsn

\* the event source hands key events to the callbacks: the run loop runs,
\* the reader reads an open device
Delivering ==
    \/ platform # "linux" /\ lsnPc = "running"
    \/ platform = "linux" /\ auxPc = "read" /\ ~devClosed

NextListen ==
    \/ DarwinStart
    \/ TapCreate
    \/ TapRun
    \/ WatchFire
    \/ TapCleanup
    \/ LinuxStart
    \/ LinuxReadFails
    \/ LinuxSelectCtx
    \/ LinuxJoin
    \/ LinuxSelectErr
    \/ CtxCancel
    \/ Delivering /\ NextHotkey

\* every goroutine of the listener that can take a step takes one
FairSpecListen ==
    /\ InitHotkey /\ [][NextListen]_vars
    /\ WF_vars(DarwinStart) /\ WF_vars(TapCreate) /\ WF_vars(TapRun)
    /\ WF_vars(WatchFire) /\ WF_vars(TapCleanup)
    /\ WF_vars(LinuxStart) /\ WF_vars(LinuxReadFails) /\ WF_vars(LinuxSelectCtx)
    /\ WF_vars(LinuxJoin) /\ WF_vars(LinuxSelectErr)

(***************************************************************************)
(* SpecIds: the registry of CGEventTap listeners. listenerMap is the set   *)
(* of ids that are registered, freedIDs the stack of ids given back.       *)
(* Listeners register (Start, under listenerMu) and unregister (Start      *)
(* after startEventTap has returned, under listenerMu) in any order.       *)
(***************************************************************************)
notId == <<recCfg, recVars, hkVars, tuiVars, obsVars, lsnVars, srvVars, instVars, cfgVars, trVars,
            toneVars, keyVars, dmVars, tsVars, tapVars>>

\* allocListenerID as it would be if it left the id it reuses in freedIDs
allocListenerID_NoPop ==
    IF Len(freedIDs) > 0
    THEN [id |-> freedIDs[Len(freedIDs)], err |-> "none", reused |-> TRUE,
          next |-> nextListenerID, freed |-> freedIDs]
    ELSE IF nextListenerID >= maxListenerID
    THEN [id |-> 0, err |-> "limit reached", reused |-> FALSE,
          next |-> nextListenerID, freed |-> freedIDs]
    ELSE [id |-> nextListenerID, err |-> "none", reused |-> FALSE,
          next |-> nextListenerID + 1, freed |-> freedIDs]

\* allocListenerID as it would be without the test of nextListenerID
allocListenerID_NoLimit ==
    IF Len(freedIDs) > 0
    THEN [id |-> freedIDs[Len(freedIDs)], err |-> "none", reused |-> TRUE,
          next |-> nextListenerID, freed |-> SubSeq(freedIDs, 1, Len(freedIDs) - 1)]
    ELSE [id |-> nextListenerID, err |-> "none", reused |-> FALSE,
          next |-> nextListenerID + 1, freed |-> freedIDs]

\* allocListenerID: the id it returns, its error, and nextListenerID and
\* freedIDs as it leaves them
allocListenerID ==
    IF Len(freedIDs) > 0
    THEN [id |-> freedIDs[Len(freedIDs)], err |-> "none", reused |-> TRUE,
          next |-> nextListenerID, freed |-> SubSeq(freedIDs, 1, Len(freedIDs) - 1)]
    ELSE IF nextListenerID >= maxListenerID
    THEN [id |-> 0, err |-> "limit reached", reused |-> FALSE,
          next |-> nextListenerID, freed |-> freedIDs]
    ELSE [id |-> nextListenerID, err |-> "none", reused |-> FALSE,
          next |-> nextListenerID + 1, freed |-> freedIDs]

\* darwinListener.Start, the locked section at its head: the id is
\* allocated and the listener entered in listenerMap, or the error returned
Register ==
    LET a == allocListenerID IN
    /\ nextListenerID' = a.next
    /\ freedIDs' = a.freed
    /\ listenerMap' = IF a.err = "none" THEN listenerMap \cup {a.id} ELSE listenerMap
    /\ idRet' = [op |-> "register", id |-> a.id, err |-> a.err, reused |-> a.reused]
    /\ UNCHANGED notId

\* darwinListener.Start, the locked section after startEventTap: the
\* listener leaves listenerMap and freeListenerID appends its id
Unregister ==
    /\ \E id \in listenerMap :
         /\ listenerMap' = listenerMap \ {id}
         /\ freedIDs' = Append(freedIDs, id)
         /\ idRet' = [op |-> "unregister", id |-> id, err |-> "none", reused |-> FALSE]
    /\ UNCHANGED nextListenerID
    /\ UNCHANGED notId

InitIds ==
    /\ nativeSR = SmallestRate /\ nativeChannels = 1 /\ maxDurationSec = 1
    /\ RecInit /\ HkRest /\ TuiRest /\ ObsRest /\ SrvRest /\ ExtRest

NextIds == Register \/ Unregister

SpecIds == InitIds /\ [][NextIds]_vars

(***************************************************************************)
(* SpecTaps: several darwinListeners of one process. tapId is l.id,        *)
(* tapLoops[i] the listener whose run loop runLoops[i] holds, tapWatch the *)
(* goroutine of Start that waits for the context, tapStopBy[l] the         *)
(* listener whose Stop or context stopped the run loop of l.               *)
(***************************************************************************)
notTap == <<recCfg, recVars, hkVars, tuiVars, obsVars, lsnVars, srvVars,
            instVars, cfgVars, trVars, toneVars, keyVars, dmVars, tsVars>>

\* stopEventTap(id) called for listener l: CFRunLoopStop(runLoops[id]) if
\* runLoops[id] is not NULL; the run loop that runs there stops
stopEventTap(l, id) ==
    IF tapLoops[id] # "none" /\ tapPc[tapLoops[id]] = "running"
    THEN /\ tapPc' = [tapPc EXCEPT ![tapLoops[id]] = "stopped"]
         /\ tapStopBy' = [tapStopBy EXCEPT ![tapLoops[id]] = l]
    ELSE UNCHANGED <<tapPc, tapStopBy>>

\* darwinListener.Start up to CFRunLoopRun: the id is allocated and
\* registered, the watcher started, the event tap created and runLoops[id]
\* stored; the limit error returns at once
TapStart(l) ==
    LET a == allocListenerID IN
    /\ tapPc[l] = "new"
    /\ nextListenerID' = a.next
    /\ freedIDs' = a.freed
    /\ idRet' = [op |-> "register", id |-> a.id, err |-> a.err, reused |-> a.reused]
    /\ IF a.err = "none"
       THEN /\ listenerMap' = listenerMap \cup {a.id}
            /\ tapId' = [tapId EXCEPT ![l] = a.id]
            /\ tapLoops' = [tapLoops EXCEPT ![a.id] = l]
            /\ tapWatch' = [tapWatch EXCEPT ![l] = "waiting"]
            /\ tapPc' = [tapPc EXCEPT ![l] = "running"]
       ELSE /\ tapPc' = [tapPc EXCEPT ![l] = "returned"]
            /\ UNCHANGED <<listenerMap, tapId, tapLoops, tapWatch>>
    /\ UNCHANGED <<tapCtx, tapStopBy>>
    /\ UNCHANGED notTap

\* darwinListener.Stop: stopEventTap(l.id), whatever l.id is by now
TapStop(l) ==
    /\ stopEventTap(l, tapId[l])
    /\ UNCHANGED <<tapId, tapLoops, tapWatch, tapCtx>>
    /\ UNCHANGED idVars
    /\ UNCHANGED notTap

\* the context given to the Start of l is cancelled
TapCancel(l) ==
    /\ ~tapCtx[l]
    /\ tapCtx' = [tapCtx EXCEPT ![l] = TRUE]
    /\ UNCHANGED <<tapPc, tapId, tapLoops, tapWatch, tapStopBy>>
    /\ UNCHANGED idVars
    /\ UNCHANGED notTap

\* the watcher of l: <-ctx.Done(), then stopEventTap(l.id) and the end of
\* the goroutine
TapWatchFire(l) ==
    /\ tapWatch[l] = "waiting" /\ tapCtx[l]
    /\ stopEventTap(l, tapId[l])
    /\ tapWatch' = [tapWatch EXCEPT ![l] = "ended"]
    /\ UNCHANGED <<tapId, tapLoops, tapCtx>>
    /\ UNCHANGED idVars
    /\ UNCHANGED notTap

\* CFRunLoopRun has returned: startEventTap clears runLoops[id]; Start
\* leaves listenerMap, frees the id and returns
TapReturn(l) ==
    /\ tapPc[l] = "stopped"
    /\ tapLoops' = [tapLoops EXCEPT ![tapId[l]] = "none"]
    /\ listenerMap' = listenerMap \ {tapId[l]}
    /\ freedIDs' = Append(freedIDs, tapId[l])
    /\ idRet' = [op |-> "unregister", id |-> tapId[l], err |-> "none", reused |-> FALSE]
    /\ tapPc' = [tapPc EXCEPT ![l] = "returned"]
    /\ UNCHANGED <<nextListenerID, tapId, tapWatch, tapCtx, tapStopBy>>
    /\ UNCHANGED notTap

InitTaps ==
    /\ nativeSR = SmallestRate /\ nativeChannels = 1 /\ maxDurationSec = 1
    /\ RecInit /\ HkRest /\ TuiRest /\ ObsRest /\ SrvRest /\ ExtRest

NextTaps ==
    \/ \E l \in TapListeners : TapStart(l)
    \/ \E l \in TapListeners : TapStop(l)
    \/ \E l \in TapListeners : TapCancel(l)
    \/ \E l \in TapListeners : TapWatchFire(l)
    \/ \E l \in TapListeners : TapReturn(l)

SpecTaps == InitTaps /\ [][NextTaps]_vars

(***************************************************************************)
(* SpecInstall: Server.Setup. files maps a name to the number of chunks    *)
(* the file of that name holds (Absent: there is no such file; FileChunks: *)
(* the file is complete). dlDest is the index in Downloads of the file     *)
(* downloadFile is working on. The process can be killed at any point, and *)
(* Setup is run again afterwards.                                          *)
(***************************************************************************)
notInst == <<recCfg, recVars, hkVars, tuiVars, obsVars, lsnVars, srvVars, idVars, cfgVars, trVars,
              toneVars, keyVars, dmVars, tsVars, tapVars>>

\* where Setup goes after the file with index i: the next file that
\* os.Stat does not find, else the ONNX Runtime if no library is found,
\* else it returns nil
RECURSIVE AfterFile(_)
AfterFile(i) ==
    IF i < Len(Downloads)
    THEN IF files[Downloads[i + 1]] = Absent
         THEN [pc |-> "dl_get", dest |-> i + 1]
         ELSE AfterFile(i + 1)
    ELSE IF files[OnnxLib] = Absent
    THEN [pc |-> "ex_get", dest |-> 0]
    ELSE [pc |-> "done", dest |-> 0]

\* Setup is called
SetupBegin ==
    /\ instPc = "idle"
    /\ instPc' = AfterFile(0).pc
    /\ dlDest' = AfterFile(0).dest
    /\ instRet' = IF AfterFile(0).pc = "done" THEN "nil" ELSE "none"
    /\ UNCHANGED files
    /\ UNCHANGED notInst

\* downloadFile: http.Get and os.Create(dest + ".tmp"); either can fail
DlGet ==
    /\ instPc = "dl_get"
    /\ \E ok \in BOOLEAN :
         IF ok
         THEN /\ files' = [files EXCEPT ![TmpOf(Downloads[dlDest])] = 0]
              /\ instPc' = "dl_write"
              /\ UNCHANGED instRet
         ELSE /\ instPc' = "failed"
              /\ instRet' = "download"
              /\ UNCHANGED files
    /\ UNCHANGED dlDest
    /\ UNCHANGED notInst

\* downloadFile, the copy loop: a chunk is written to the temporary file,
\* or the read or the write fails and the deferred os.Remove(tmp) runs
DlChunk ==
    /\ instPc = "dl_write"
    /\ files[TmpOf(Downloads[dlDest])] < FileChunks
    /\ \E ok \in BOOLEAN :
         IF ok
         THEN /\ files' = [files EXCEPT ![TmpOf(Downloads[dlDest])] = @ + 1]
              /\ UNCHANGED <<instPc, instRet>>
         ELSE /\ files' = [files EXCEPT ![TmpOf(Downloads[dlDest])] = Absent]
              /\ instPc' = "failed"
              /\ instRet' = "download"
    /\ UNCHANGED dlDest
    /\ UNCHANGED notInst

\* downloadFile after io.EOF: f.Close and os.Rename(tmp, dest), then Setup
\* goes on; a failed rename leaves dest alone and tmp is removed
DlRename ==
    /\ instPc = "dl_write"
    /\ files[TmpOf(Downloads[dlDest])] = FileChunks
    /\ \E ok \in BOOLEAN :
         IF ok
         THEN /\ files' = [files EXCEPT ![Downloads[dlDest]] = files[TmpOf(Downloads[dlDest])],
                                        ![TmpOf(Downloads[dlDest])] = Absent]
              /\ LET nxt == AfterFile(dlDest) IN
                   \* AfterFile looks at files that this rename does not change
                   /\ instPc' = nxt.pc
                   /\ dlDest' = nxt.dest
                   /\ instRet' = IF nxt.pc = "done" THEN "nil" ELSE "none"
         ELSE /\ files' = [files EXCEPT ![TmpOf(Downloads[dlDest])] = Absent]
              /\ instPc' = "failed"
              /\ instRet' = "download"
              /\ UNCHANGED dlDest
    /\ UNCHANGED notInst

\* downloadAndExtractOnnxRuntime: http.Get, gzip.NewReader, tr.Next up to
\* the header of the library; any of them can fail
ExGet ==
    /\ instPc = "ex_get"
    /\ \E ok \in BOOLEAN :
         IF ok
         THEN instPc' = "ex_open" /\ UNCHANGED instRet
         ELSE instPc' = "failed" /\ instRet' = "onnxruntime"
    /\ UNCHANGED <<files, dlDest>>
    /\ UNCHANGED notInst

\* downloadAndExtractOnnxRuntime: os.OpenFile(dest, O_CREATE|O_WRONLY|O_TRUNC)
ExOpen ==
    /\ instPc = "ex_open"
    /\ \E ok \in BOOLEAN :
         IF ok
         THEN /\ files' = [files EXCEPT ![OnnxLib] = 0]
              /\ instPc' = "ex_copy"
              /\ UNCHANGED instRet
         ELSE /\ instPc' = "failed" /\ instRet' = "onnxruntime"
              /\ UNCHANGED files
    /\ UNCHANGED dlDest
    /\ UNCHANGED notInst

\* downloadAndExtractOnnxRuntime, io.Copy: a chunk is written to dest, or
\* the copy fails, out is closed and the error returned
ExChunk ==
    /\ instPc = "ex_copy"
    /\ files[OnnxLib] < FileChunks
    /\ \E ok \in BOOLEAN :
         IF ok
         THEN /\ files' = [files EXCEPT ![OnnxLib] = @ + 1]
              /\ UNCHANGED <<instPc, instRet>>
         ELSE /\ instPc' = "failed" /\ instRet' = "onnxruntime"
              /\ UNCHANGED files
    /\ UNCHANGED dlDest
    /\ UNCHANGED notInst

\* downloadAndExtractOnnxRuntime: the copy is complete, tr.Next gives
\* io.EOF, Setup returns nil
ExDone ==
    /\ instPc = "ex_copy"
    /\ files[OnnxLib] = FileChunks
    /\ instPc' = "done"
    /\ instRet' = "nil"
    /\ UNCHANGED <<files, dlDest>>
    /\ UNCHANGED notInst

\* the process is killed while Setup runs; no deferred call runs
SetupKilled ==
    /\ instPc \notin {"idle", "done", "failed", "killed"}
    /\ instPc' = "killed"
    /\ instRet' = "none"
    /\ UNCHANGED <<files, dlDest>>
    /\ UNCHANGED notInst

\* the program is run again and calls Setup on what the last run left
SetupAgain ==
    /\ instPc \in {"done", "failed", "killed"}
    /\ instPc' = "idle"
    /\ dlDest' = 0
    /\ instRet' = "none"
    /\ UNCHANGED files
    /\ UNCHANGED notInst

\* an earlier install has left any of the files, each of them complete
InitInstall ==
    /\ nativeSR = SmallestRate /\ nativeChannels = 1 /\ maxDurationSec = 1
    /\ RecInit /\ HkRest /\ TuiRest /\ ObsRest /\ SrvRest /\ TapRest /\ TsRest /\ DmRest /\ ToneRest /\ KeyRest /\ IdRest /\ CfgRest /\ TrRest
    /\ files \in [FileNames -> {Absent, FileChunks}]
    /\ \A n \in FileNames \ FinalNames : files[n] = Absent
    /\ instPc = "idle"
    /\ dlDest = 0
    /\ instRet = "none"

NextInstall ==
    \/ SetupBegin
    \/ DlGet
    \/ DlChunk
    \/ DlRename
    \/ ExGet
    \/ ExOpen
    \/ ExChunk
    \/ ExDone
    \/ SetupKilled
    \/ SetupAgain

SpecInstall == InitInstall /\ [][NextInstall]_vars

(***************************************************************************)
(* SpecSave: config.Save. cfgFile is the file at path, cfgTmp the file     *)
(* os.CreateTemp made. Every system call of Save can fail, the process can *)
(* be killed between any two of them, and Save is called again later.      *)
(***************************************************************************)
notCfg == <<recCfg, recVars, hkVars, tuiVars, obsVars, lsnVars, srvVars, idVars, instVars, trVars,
             toneVars, keyVars, dmVars, tsVars, tapVars>>

\* Save returns err after tmp.Close() and os.Remove(tmpPath)
SaveFails ==
    /\ cfgTmp' = NoFile
    /\ savePc' = "idle"
    /\ saveRet' = "error"
    /\ UNCHANGED <<cfgFile, staleTmp, nSaves>>

\* Save as it would be if it opened path itself, truncating it
SaveCreate_InPlace ==
    /\ savePc = "idle" /\ nSaves < MaxSaves
    /\ nSaves' = nSaves + 1
    /\ \E ok \in BOOLEAN :
         IF ok
         THEN /\ cfgTmp' = [ver |-> nSaves + 1, n |-> 0]
              /\ cfgFile' = [ver |-> nSaves + 1, n |-> 0]
              /\ savePc' = "encode"
              /\ saveRet' = "none"
         ELSE /\ savePc' = "idle"
              /\ saveRet' = "error"
              /\ UNCHANGED <<cfgTmp, cfgFile>>
    /\ UNCHANGED staleTmp
    /\ UNCHANGED notCfg

\* Save: os.MkdirAll and os.CreateTemp(dir, ".palaver-config-*.tmp")
SaveCreate ==
    /\ savePc = "idle" /\ nSaves < MaxSaves
    /\ nSaves' = nSaves + 1
    /\ \E ok \in BOOLEAN :
         IF ok
         THEN /\ cfgTmp' = [ver |-> nSaves + 1, n |-> 0]
              /\ savePc' = "encode"
              /\ saveRet' = "none"
         ELSE /\ savePc' = "idle"
              /\ saveRet' = "error"
              /\ UNCHANGED cfgTmp
    /\ UNCHANGED <<cfgFile, staleTmp>>
    /\ UNCHANGED notCfg

\* Save: toml.NewEncoder(tmp).Encode(cfg) writes the next chunk, or fails
SaveEncode ==
    /\ savePc = "encode"
    /\ \E ok \in BOOLEAN :
         IF ok
         THEN /\ cfgTmp' = [cfgTmp EXCEPT !.n = @ + 1]
              /\ savePc' = IF cfgTmp.n + 1 = FileChunks THEN "sync" ELSE "encode"
              /\ UNCHANGED <<cfgFile, staleTmp, nSaves, saveRet>>
         ELSE SaveFails
    /\ UNCHANGED notCfg

\* Save: tmp.Sync(), then tmp.Close()
SaveSyncClose ==
    /\ savePc \in {"sync", "close"}
    /\ \E ok \in BOOLEAN :
         IF ok
         THEN /\ savePc' = IF savePc = "sync" THEN "close" ELSE "rename"
              /\ UNCHANGED <<cfgFile, cfgTmp, staleTmp, nSaves, saveRet>>
         ELSE SaveFails
    /\ UNCHANGED notCfg

\* Save: return os.Rename(tmpPath, path); a failed rename changes nothing
\* at path and leaves the temporary file where it is
SaveRename ==
    /\ savePc = "rename"
    /\ \E ok \in BOOLEAN :
         IF ok
         THEN /\ cfgFile' = cfgTmp
              /\ saveRet' = "nil"
              /\ UNCHANGED staleTmp
         ELSE /\ saveRet' = "error"
              /\ staleTmp' = staleTmp + 1
              /\ UNCHANGED cfgFile
    /\ cfgTmp' = NoFile
    /\ savePc' = "idle"
    /\ UNCHANGED nSaves
    /\ UNCHANGED notCfg

\* the process is killed inside Save and the program started again later;
\* the temporary file of the Save stays in the directory
SaveKilled ==
    /\ savePc \notin {"idle"}
    /\ savePc' = "idle"
    /\ saveRet' = "killed"
    /\ cfgTmp' = NoFile
    /\ staleTmp' = staleTmp + 1
    /\ UNCHANGED <<cfgFile, nSaves>>
    /\ UNCHANGED notCfg

\* the configuration file is there from an earlier run, or is not
InitSave ==
    /\ nativeSR = SmallestRate /\ nativeChannels = 1 /\ maxDurationSec = 1
    /\ RecInit /\ HkRest /\ TuiRest /\ ObsRest /\ SrvRest /\ TapRest /\ TsRest /\ DmRest /\ ToneRest /\ KeyRest /\ IdRest /\ InstRest /\ TrRest
    /\ cfgFile \in {NoFile, [ver |-> 0, n |-> FileChunks]}
    /\ cfgTmp = NoFile
    /\ staleTmp = 0
    /\ savePc = "idle"
    /\ nSaves = 0
    /\ saveRet = "none"

NextSave ==
    \/ SaveCreate
    \/ SaveEncode
    \/ SaveSyncClose
    \/ SaveRename
    \/ SaveKilled

SpecSave == InitSave /\ [][NextSave]_vars

(***************************************************************************)
(* SpecTranscribe: Command.Transcribe. tmpWav is the file os.CreateTemp    *)
(* made for the call, trWav the length of wavData in chunks.               *)
(***************************************************************************)
notTr == <<recCfg, recVars, hkVars, tuiVars, obsVars, lsnVars, srvVars, idVars, instVars, cfgVars,
            toneVars, keyVars, dmVars, tsVars, tapVars>>

\* the command strings of the configuration: none, and one with {input}
Commands == {"", "whisper {input}"}
\* WAV data handed to Transcribe, in chunks
WavLens == 0..FileChunks

\* Transcribe returns err; the deferred os.Remove(tmpPath) runs
TrReturns(err) ==
    /\ tmpWav' = Absent
    /\ trPc' = "idle"
    /\ trRet' = err

\* Transcribe: os.CreateTemp("", "palaver-*.wav"); on failure there is no
\* file and nothing is deferred
TrCreate ==
    /\ trPc = "idle" /\ nCalls < MaxTranscribes
    /\ nCalls' = nCalls + 1
    /\ \E len \in WavLens, ok \in BOOLEAN :
         /\ trWav' = len
         /\ IF ok
            THEN /\ tmpWav' = 0
                 /\ trPc' = "write"
                 /\ trRet' = "none"
            ELSE /\ trPc' = "idle"
                 /\ trRet' = "create temp file"
                 /\ UNCHANGED tmpWav
    /\ UNCHANGED command
    /\ UNCHANGED notTr

\* Transcribe: tmpFile.Write(wavData) and Close, or the write fails
TrWrite ==
    /\ trPc = "write"
    /\ \E ok \in BOOLEAN :
         IF ok
         THEN /\ tmpWav' = trWav
              /\ trPc' = "subst"
              /\ UNCHANGED trRet
         ELSE TrReturns("write temp file")
    /\ UNCHANGED <<command, trWav, nCalls>>
    /\ UNCHANGED notTr

\* Transcribe: strings.ReplaceAll(c.command, "{input}", tmpPath) and the
\* test for the empty command
TrSubst ==
    /\ trPc = "subst"
    /\ IF command = ""
       THEN TrReturns("empty command")
       ELSE /\ trPc' = "run"
            /\ UNCHANGED <<tmpWav, trRet>>
    /\ UNCHANGED <<command, trWav, nCalls>>
    /\ UNCHANGED notTr

\* the command deletes its input while it runs
TrCommandDeletes ==
    /\ trPc = "run" /\ tmpWav # Absent
    /\ tmpWav' = Absent
    /\ UNCHANGED <<command, trPc, trWav, nCalls, trRet>>
    /\ UNCHANGED notTr

\* Transcribe as it would be if the file were removed after a successful
\* command only
TrRun_RemovesOnSuccess ==
    /\ trPc = "run"
    /\ \E outcome \in {"nil", "run command", "timeout"} :
         /\ tmpWav' = IF outcome = "nil" THEN Absent ELSE tmpWav
         /\ trPc' = "idle"
         /\ trRet' = outcome
    /\ UNCHANGED <<command, trWav, nCalls>>
    /\ UNCHANGED notTr

\* Transcribe: cmd.Output() under the timeout; the text is returned, or the
\* command has failed or the timeout has killed it
TrRun ==
    /\ trPc = "run"
    /\ \E outcome \in {"nil", "run command", "timeout"} : TrReturns(outcome)
    /\ UNCHANGED <<command, trWav, nCalls>>
    /\ UNCHANGED notTr

InitTranscribe ==
    /\ nativeSR = SmallestRate /\ nativeChannels = 1 /\ maxDurationSec = 1
    /\ RecInit /\ HkRest /\ TuiRest /\ ObsRest /\ SrvRest /\ TapRest /\ TsRest /\ DmRest /\ ToneRest /\ KeyRest /\ IdRest /\ InstRest /\ CfgRest
    /\ command \in Commands
    /\ tmpWav = Absent
    /\ trPc = "idle"
    /\ trWav = 0
    /\ nCalls = 0
    /\ trRet = "none"

NextTranscribe ==
    \/ TrCreate
    \/ TrWrite
    \/ TrSubst
    \/ TrCommandDeletes
    \/ TrRun

SpecTranscribe == InitTranscribe /\ [][NextTranscribe]_vars

(***************************************************************************)
(* SpecTones: the tone registry of package postprocess.                    *)
(* tones maps a lower-case name to a Tone, toneOrder is the cycle.         *)
(* RegisterCustomTones is called with lists of [[custom_tone]] entries;    *)
(* NextTone and ResolveTone are called with any name.                      *)
(***************************************************************************)
notTone == <<recCfg, recVars, hkVars, tuiVars, obsVars, lsnVars, srvVars,
             idVars, instVars, cfgVars, trVars, keyVars, dmVars, tsVars, tapVars>>

\* strings.ToLower on the names that occur
ToLower(s) ==
    CASE s = "OFF" -> "off"
      [] s = "Polite" -> "polite"
      [] s = "Pirate" -> "pirate"
      [] OTHER -> s

\* the [[custom_tone]] entries of a configuration
CustomNames == {"", "OFF", "Polite", "pirate"}
CustomPrompts == {"", "Arr, rewrite as a pirate."}
CustomTones == [Name : CustomNames, Prompt : CustomPrompts]
\* the lists of custom tones handed to RegisterCustomTones
CustomLists == UNION {[1..n -> CustomTones] : n \in 0..MaxCustom}
\* the names NextTone and ResolveTone are called with
ToneArgs == {"off", "Polite", "token-efficient", "pirate", "Pirate", "nonexistent"}

\* the positions of a name in a cycle
Positions(order, name) == {i \in 1..Len(order) : order[i] = name}

\* one iteration of the loop of RegisterCustomTones as it would be if it
\* appended the key without looking for it in toneOrder
RegisterOne_AlwaysAppends(reg, ct) ==
    LET key == ToLower(ct.Name) IN
    IF key = "" THEN reg
    ELSE [tones |-> [k \in DOMAIN reg.tones \cup {key} |->
                        IF k = key THEN [Name |-> ct.Name, Prompt |-> ct.Prompt]
                        ELSE reg.tones[k]],
          order |-> Append(reg.order, key)]

\* one iteration of the loop of RegisterCustomTones: an empty name is
\* skipped; the tone is stored under the lower-case name, and the name is
\* appended to the cycle unless it is found there
RegisterOne(reg, ct) ==
    LET key == ToLower(ct.Name) IN
    IF key = "" THEN reg
    ELSE [tones |-> [k \in DOMAIN reg.tones \cup {key} |->
                        IF k = key THEN [Name |-> ct.Name, Prompt |-> ct.Prompt]
                        ELSE reg.tones[k]],
          order |-> IF Positions(reg.order, key) # {}
                    THEN reg.order
                    ELSE Append(reg.order, key)]

\* the loop of RegisterCustomTones over the list
RECURSIVE RegisterAll(_, _)
RegisterAll(reg, custom) ==
    IF custom = <<>> THEN reg
    ELSE RegisterAll(RegisterOne(reg, Head(custom)), Tail(custom))

\* RegisterCustomTones(custom, logger)
RegisterCustomTones(custom) ==
    /\ nRegs < MaxRegistrations
    /\ nRegs' = nRegs + 1
    /\ LET reg == RegisterAll([tones |-> tones, order |-> toneOrder], custom) IN
         /\ tones' = reg.tones
         /\ toneOrder' = reg.order
    /\ UNCHANGED toneRet
    /\ UNCHANGED notTone

\* ResolveTone(name): the tone of the lower-case name, or the tone "off"
ResolveTone(name) ==
    IF ToLower(name) \in DOMAIN tones THEN tones[ToLower(name)] ELSE tones["off"]

\* NextTone as it would be without the wrap at the end of the cycle
NextTone_NoWrap(current) ==
    LET at == Positions(toneOrder, ToLower(current)) IN
    IF at = {} THEN toneOrder[1]
    ELSE LET i == CHOOSE x \in at : \A y \in at : x <= y IN
         toneOrder[IF i = Len(toneOrder) THEN i ELSE i + 1]

\* NextTone(current): the name after the first occurrence of the lower-case
\* name in the cycle, wrapping; the first name if it does not occur
NextTone(current) ==
    LET at == Positions(toneOrder, ToLower(current)) IN
    IF at = {} THEN toneOrder[1]
    ELSE LET i == CHOOSE x \in at : \A y \in at : x <= y IN
         toneOrder[(i % Len(toneOrder)) + 1]

\* a call of ResolveTone
ResolveToneCall(name) ==
    /\ toneRet' = [op |-> "ResolveTone", arg |-> name, val |-> ResolveTone(name).Name]
    /\ UNCHANGED <<toneOrder, tones, nRegs>>
    /\ UNCHANGED notTone

\* a call of NextTone
NextToneCall(current) ==
    /\ toneRet' = [op |-> "NextTone", arg |-> current, val |-> NextTone(current)]
    /\ UNCHANGED <<toneOrder, tones, nRegs>>
    /\ UNCHANGED notTone

InitTones ==
    /\ nativeSR = SmallestRate /\ nativeChannels = 1 /\ maxDurationSec = 1
    /\ RecInit /\ HkRest /\ TuiRest /\ ObsRest /\ SrvRest /\ ExtRest

NextTones ==
    \/ \E custom \in CustomLists : RegisterCustomTones(custom)
    \/ \E name \in ToneArgs : ResolveToneCall(name)
    \/ \E current \in ToneArgs : NextToneCall(current)

SpecTones == InitTones /\ [][NextTones]_vars

(***************************************************************************)
(* SpecDownmix: recorder.DownmixStereoToMono on interleaved stereo buffers *)
(* of int16 samples (the same arithmetic is inlined in readLoop).          *)
(***************************************************************************)
notDm == <<recCfg, recVars, hkVars, tuiVars, obsVars, lsnVars, srvVars,
           idVars, instVars, cfgVars, trVars, toneVars, keyVars, tsVars, tapVars>>

\* int16 samples: the extremes, and small values of both signs
Samples == {0 - 32768, 0 - 3, 0 - 1, 0, 1, 2, 32767}

\* Go's integer division by 2: the quotient is truncated toward zero
Quo2(x) == IF x >= 0 THEN x \div 2 ELSE 0 - ((0 - x) \div 2)

\* the conversion int16(x) of an int32: the low 16 bits, as a signed value
ToInt16(x) == ((x + 32768) % 65536) - 32768

\* DownmixStereoToMono as it would be if the sum were taken in int16
DownmixStereoToMono_SumInt16(s) ==
    [i \in 1..(Len(s) \div 2) |-> ToInt16(Quo2(ToInt16(s[2 * i - 1] + s[2 * i])))]

\* DownmixStereoToMono(stereo): mono[i/2] = int16((int32(l) + int32(r)) / 2)
DownmixStereoToMono(s) ==
    [i \in 1..(Len(s) \div 2) |-> ToInt16(Quo2(s[2 * i - 1] + s[2 * i]))]

\* a call of DownmixStereoToMono on the buffer
DownmixCall ==
    /\ ~dmDone
    /\ mono' = DownmixStereoToMono(stereo)
    /\ dmDone' = TRUE
    /\ UNCHANGED stereo
    /\ UNCHANGED notDm

InitDownmix ==
    /\ nativeSR = SmallestRate /\ nativeChannels = 1 /\ maxDurationSec = 1
    /\ RecInit /\ HkRest /\ TuiRest /\ ObsRest /\ SrvRest /\ TapRest /\ TsRest
    /\ IdRest /\ InstRest /\ CfgRest /\ TrRest /\ ToneRest /\ KeyRest
    /\ stereo \in UNION {[1..(2 * n) -> Samples] : n \in 0..MaxFrames}
    /\ mono = <<>>
    /\ dmDone = FALSE

NextDownmix == DownmixCall

SpecDownmix == InitDownmix /\ [][NextDownmix]_vars

(***************************************************************************)
(* SpecPP: the coordinator with the post-processing and pasting stages.    *)
(* The handlers of PostProcessResultMsg and PostProcessErrorMsg and the    *)
(* states PostProcessing and Pasting are described by the specification    *)
(* and exercised by the tests of tui.Model; the Update that holds them is  *)
(* not among the sources, so the Pp definitions follow the specification.  *)
(* A session enters at the release of the key (RecordingStoppedMsg); the   *)
(* tone can be cycled at any time, so whether post-processing is on is     *)
(* open at every transcription result.                                     *)
(***************************************************************************)
\* the text the post-processor returns
Rewritten == "rewritten"

\* TranscriptionResultMsg: blank goes to Idle; with post-processing on, to
\* PostProcessing with the rewrite command; else to Pasting with the paste
PpTranscriptionResult(m, ppOn) ==
    /\ LastTranscript' = m.arg
    /\ IF m.arg \in {"", "[BLANK_AUDIO]"}
       THEN /\ State' = "Idle"
            /\ UNCHANGED <<cmds, hist>>
       ELSE IF ppOn
            THEN /\ State' = "PostProcessing"
                 /\ cmds' = cmds \cup {Cmd("postprocess", m.p, m.arg)}
                 /\ hist' = hist \cup {<<"ppStart", m.p>>}
            ELSE /\ State' = "Pasting"
                 /\ cmds' = cmds \cup {Cmd("paste", m.p, m.arg)}
                 /\ hist' = hist \cup {<<"pasteStart", m.p>>}
    /\ UNCHANGED LastError

\* PostProcessResultMsg{Text, OriginalText}: paste the rewritten text
PpPostProcessResult(m) ==
    /\ State' = "Pasting"
    /\ LastTranscript' = m.arg
    /\ cmds' = cmds \cup {Cmd("paste", m.p, m.arg)}
    /\ hist' = hist \cup {<<"pasteStart", m.p>>}
    /\ UNCHANGED LastError

\* the PostProcessErrorMsg handler as it would be if it treated the failure
\* like a transcription failure
PpPostProcessError_ToError(m) ==
    /\ State' = "Error"
    /\ LastError' = "postprocess"
    /\ cmds' = cmds \cup {Cmd("errorTimer", m.p, "postprocess")}
    /\ hist' = {h \in hist : h[1] # "errEntry"}
                  \cup {<<"obsError", m.p>>, <<"errEntry", m.p>>}
    /\ UNCHANGED LastTranscript

\* PostProcessErrorMsg{Err, OriginalText}: the error is logged and the
\* original transcript is pasted
PpPostProcessError(m) ==
    /\ State' = "Pasting"
    /\ cmds' = cmds \cup {Cmd("paste", m.p, m.arg)}
    /\ hist' = hist \cup {<<"pasteStart", m.p>>, <<"ppFailed", m.p>>}
    /\ UNCHANGED <<LastTranscript, LastError>>

\* the paste has succeeded: Pasting goes to Idle
PpPasteDone(m) ==
    /\ State' = "Idle"
    /\ UNCHANGED <<LastTranscript, LastError, cmds, hist>>

\* Update of the coordinator with post-processing
PpUpdate(m, ppOn) ==
    CASE m.type = "RecordingStoppedMsg" -> UpdRecordingStopped(m)
      [] m.type = "TranscriptionResultMsg" -> PpTranscriptionResult(m, ppOn)
      [] m.type = "PostProcessResultMsg" -> PpPostProcessResult(m)
      [] m.type = "PostProcessErrorMsg" -> PpPostProcessError(m)
      [] m.type = "PasteDoneMsg" -> PpPasteDone(m)
      [] m.type = "TranscriptionErrorMsg" -> UpdTranscriptionError(m)
      [] m.type = "errorTimeoutMsg" -> UpdErrorTimeout(m)

\* a session's capture has been stopped: RecordingStoppedMsg arrives in Idle
\* (the Recording stage is that of Spec)
PpSessionStopped ==
    /\ State = "Idle" /\ press < MaxPpSessions
    /\ press' = press + 1
    /\ UpdRecordingStopped(Msg("RecordingStoppedMsg", press + 1, "wav"))
    /\ UNCHANGED inbox
    /\ UNCHANGED <<keyHeld, hkPc, recMu>>
    /\ UNCHANGED <<recCfg, recVars, obsVars, lsnVars, srvVars, extVars>>

\* the rewrite command: PostProcessor.Rewrite returns a text or fails; the
\* message of a failure carries the original text
PpCmdPostProcess(c) ==
    /\ c \in cmds /\ c.kind = "postprocess"
    /\ \E ok \in BOOLEAN :
         inbox' = inbox \cup
            {IF ok THEN Msg("PostProcessResultMsg", c.p, Rewritten)
                   ELSE Msg("PostProcessErrorMsg", c.p, c.arg)}
    /\ cmds' = cmds \ {c}
    /\ UNCHANGED <<State, LastTranscript, LastError, hist>>
    /\ UNCHANGED notTui

\* the paste command: the injector types the text, or fails
PpCmdPaste(c) ==
    /\ c \in cmds /\ c.kind = "paste"
    /\ \E ok \in BOOLEAN :
         IF ok
         THEN /\ inbox' = inbox \cup {Msg("PasteDoneMsg", c.p, "")}
              /\ hist' = hist \cup {<<"injectedText", c.p, c.arg>>}
         ELSE /\ inbox' = inbox \cup {Msg("TranscriptionErrorMsg", c.p, "paste")}
              /\ UNCHANGED hist
    /\ cmds' = cmds \ {c}
    /\ UNCHANGED <<State, LastTranscript, LastError>>
    /\ UNCHANGED notTui

\* the event loop takes a message and runs Update on it
PpDeliver(m) ==
    /\ m \in inbox
    /\ inbox' = inbox \ {m}
    /\ \E ppOn \in BOOLEAN : PpUpdate(m, ppOn)
    /\ UNCHANGED notTui

\* ---- the key bindings of the TUI ----
\* The bindings q, ctrl+c, t and r are those of Model.Update; p and m are
\* those the tests of tui.Model exercise; that no binding but the hard quit
\* is read in Pasting follows the specification.
notKey == <<recCfg, recVars, hkVars, obsVars, lsnVars, srvVars,
            idVars, instVars, cfgVars, trVars, toneVars, dmVars, tsVars, tapVars>>

\* the keys the terminal delivers ("x" has no binding)
Keys == {"q", "ctrl+c", "t", "p", "m", "r", "x"}
\* the shortcut that is read in every state
HardQuit == "ctrl+c"

\* NextTheme(current), as the name m.themeName is set to
NextTheme(current) ==
    LET at == Positions(themeOrder, current) IN
    IF at = {} THEN themeOrder[1]
    ELSE LET i == CHOOSE x \in at : \A y \in at : x <= y IN
         themeOrder[(i % Len(themeOrder)) + 1]

\* the model after ppModelName in ppModels
NextModel(current) ==
    LET at == Positions(ppModels, current) IN
    IF at = {} THEN ppModels[1]
    ELSE LET i == CHOOSE x \in at : \A y \in at : x <= y IN
         ppModels[(i % Len(ppModels)) + 1]

\* case tea.KeyMsg: the bindings of Model.Update
KeyBindings(k) ==
    CASE k \in {"q", "ctrl+c"} ->
            /\ quit' = TRUE
            /\ keyCmd' = "tea.Quit"
            /\ UNCHANGED <<themeName, toneName, ppModelName, serverState>>
      [] k = "t" ->
            /\ themeName' = NextTheme(themeName)
            /\ keyCmd' = "nil"
            /\ UNCHANGED <<toneName, ppModelName, serverState, quit>>
      [] k = "r" ->
            /\ IF Server
               THEN serverState' = "starting" /\ keyCmd' = "serverRestartCmd"
               ELSE UNCHANGED serverState /\ keyCmd' = "nil"
            /\ UNCHANGED <<themeName, toneName, ppModelName, quit>>
      [] OTHER ->
            /\ keyCmd' = "nil"
            /\ UNCHANGED <<themeName, toneName, ppModelName, serverState, quit>>

\* the bindings of the post-processing keys: p cycles the tone and saves the
\* configuration; m cycles the model unless the tone is off or no model is
\* listed
ToneBindings(k) ==
    CASE k = "p" ->
            /\ toneName' = NextTone(toneName)
            /\ keyCmd' = "saveConfigCmd"
            /\ UNCHANGED <<themeName, ppModelName, serverState, quit>>
      [] k = "m" ->
            /\ IF toneName = "off" \/ ppModels = <<>>
               THEN UNCHANGED ppModelName /\ keyCmd' = "nil"
               ELSE ppModelName' = NextModel(ppModelName) /\ keyCmd' = "saveConfigCmd"
            /\ UNCHANGED <<themeName, toneName, serverState, quit>>

\* the bindings of the Model with post-processing
PpBindings(k) ==
    IF k \in {"p", "m"} THEN ToneBindings(k) ELSE KeyBindings(k)

\* Update(tea.KeyMsg) as it would be if the bindings were read in every state
PpKey_NoGate(k) ==
    /\ ~quit /\ nKeys < MaxKeys
    /\ nKeys' = nKeys + 1
    /\ lastKey' = [k |-> k, in |-> State]
    /\ PpBindings(k)
    /\ UNCHANGED <<Server, tuiVars>>
    /\ UNCHANGED notKey

\* Update(tea.KeyMsg): in Pasting only the hard quit is read; no key is read
\* once the program is quitting
PpKey(k) ==
    /\ ~quit /\ nKeys < MaxKeys
    /\ nKeys' = nKeys + 1
    /\ lastKey' = [k |-> k, in |-> State]
    /\ IF State = "Pasting"
       THEN IF k = HardQuit
            THEN PpBindings(k)
            ELSE /\ keyCmd' = "nil"
                 /\ UNCHANGED <<themeName, toneName, ppModelName, serverState, quit>>
       ELSE PpBindings(k)
    /\ UNCHANGED <<Server, tuiVars>>
    /\ UNCHANGED notKey

InitPP ==
    /\ TuiRest /\ HkRest /\ ObsRest /\ SrvRest /\ TapRest /\ TsRest /\ DmRest /\ RecInit
    /\ IdRest /\ InstRest /\ CfgRest /\ TrRest /\ ToneRest
    /\ KeyFields /\ Server \in BOOLEAN
    /\ toneName \in {"off", "polite"}
    /\ nativeSR = SmallestRate /\ nativeChannels = 1 /\ maxDurationSec = 1

NextPP ==
    \/ PpSessionStopped
    \/ \E c \in cmds : CmdTranscribe(c)
    \/ \E c \in cmds : PpCmdPostProcess(c)
    \/ \E c \in cmds : PpCmdPaste(c)
    \/ \E c \in cmds : CmdErrorTimer(c)
    \/ \E m \in inbox : PpDeliver(m)
    \/ \E k \in Keys : PpKey(k)

SpecPP == InitPP /\ [][NextPP]_vars

(***************************************************************************)
(* SpecTuiServer: the coordinator's server commands and status checks.     *)
(* Model.Init issues the status check and, with a managed server, the      *)
(* start of the server; the key r issues a restart.  Each command runs in  *)
(* a goroutine of its own and calls the supervisor; its result comes back  *)
(* as serverStartDoneMsg.  Every StatusCheckMsg schedules the next check.  *)
(***************************************************************************)
notTs == <<recCfg, recVars, hkVars, obsVars, lsnVars,
           idVars, instVars, cfgVars, trVars, toneVars, dmVars, tapVars>>
\* what a step of the coordinator leaves alone in the supervisor and itself
tsFrame == <<srvVars, State, LastTranscript, LastError, cmds, hist,
             themeName, toneName, ppModelName, Server>>

\* the call of the command of goroutine t has returned
Returned(t) ==
    /\ srvPc[t] = "idle"
    /\ srvRet[t].op = "start"
    /\ srvRet[t].rs \in {"none", "done"}

\* the status checks under way, at any stage of their cycle
StatusChains == statusCmds + statusMsgs + statusTicks + tickMsgs

\* Model.Init: statusCheckCmd and, if m.Server is set, serverStartingMsg and
\* ServerStartCmd
TsInitCmds ==
    /\ StatusChains = 0
    /\ statusCmds' = 1
    /\ IF Server
       THEN /\ srvCmd' = [srvCmd EXCEPT !["init"] = "issued"]
            /\ inbox' = inbox \cup {Msg("serverStartingMsg", "init", "")}
       ELSE UNCHANGED <<srvCmd, inbox>>
    /\ UNCHANGED <<statusMsgs, statusTicks, tickMsgs>>
    /\ UNCHANGED <<serverState, quit, keyCmd, lastKey, nKeys>>
    /\ UNCHANGED tsFrame
    /\ UNCHANGED notTs

\* the key r: serverState = "starting" and serverRestartCmd, in a goroutine
\* that is free
TsKeyR(t) ==
    /\ StatusChains > 0 /\ Server
    /\ t \in Threads /\ srvCmd[t] = "none"
    /\ KeyBindings("r")
    /\ lastKey' = [k |-> "r", in |-> State]
    /\ nKeys' = nKeys + 1
    /\ srvCmd' = [srvCmd EXCEPT ![t] = "issued"]
    /\ UNCHANGED <<inbox, statusCmds, statusMsgs, statusTicks, tickMsgs>>
    /\ UNCHANGED tsFrame
    /\ UNCHANGED notTs

\* the goroutine of a server command sends serverStartDoneMsg{err} when
\* Start or Restart has returned
TsSendDone(t) ==
    /\ srvCmd[t] = "issued" /\ Returned(t)
    /\ srvCmd' = [srvCmd EXCEPT ![t] = "sent"]
    /\ inbox' = inbox \cup {Msg("serverStartDoneMsg", t, srvRet[t].err)}
    /\ UNCHANGED <<statusCmds, statusMsgs, statusTicks, tickMsgs>>
    /\ UNCHANGED keyVars
    /\ UNCHANGED tsFrame
    /\ UNCHANGED notTs

\* case serverStartingMsg
TsStarting(m) ==
    /\ m \in inbox /\ m.type = "serverStartingMsg"
    /\ inbox' = inbox \ {m}
    /\ serverState' = "starting"
    /\ UNCHANGED <<srvCmd, statusCmds, statusMsgs, statusTicks, tickMsgs>>
    /\ UNCHANGED <<quit, keyCmd, lastKey, nKeys>>
    /\ UNCHANGED tsFrame
    /\ UNCHANGED notTs

\* case serverStartDoneMsg: "error" or "running", and statusCheckCmd
TsStartDone(m) ==
    /\ m \in inbox /\ m.type = "serverStartDoneMsg"
    /\ inbox' = inbox \ {m}
    /\ serverState' = IF m.arg # "none" THEN "error" ELSE "running"
    /\ statusCmds' = statusCmds + 1
    /\ UNCHANGED <<srvCmd, statusMsgs, statusTicks, tickMsgs>>
    /\ UNCHANGED <<quit, keyCmd, lastKey, nKeys>>
    /\ UNCHANGED tsFrame
    /\ UNCHANGED notTs

\* statusCheckCmd has probed the microphone and the backend: StatusCheckMsg
TsStatusCmd ==
    /\ statusCmds > 0
    /\ statusCmds' = statusCmds - 1
    /\ statusMsgs' = statusMsgs + 1
    /\ UNCHANGED <<srvCmd, statusTicks, tickMsgs, inbox>>
    /\ UNCHANGED keyVars
    /\ UNCHANGED tsFrame
    /\ UNCHANGED notTs

\* case StatusCheckMsg: returns scheduleStatusRecheck()
TsStatusCheck ==
    /\ statusMsgs > 0
    /\ statusMsgs' = statusMsgs - 1
    /\ statusTicks' = statusTicks + 1
    /\ UNCHANGED <<srvCmd, statusCmds, tickMsgs, inbox>>
    /\ UNCHANGED keyVars
    /\ UNCHANGED tsFrame
    /\ UNCHANGED notTs

\* a tea.Tick of scheduleStatusRecheck fires after 30 s: statusCheckTickMsg
TsTickFires ==
    /\ statusTicks > 0
    /\ statusTicks' = statusTicks - 1
    /\ tickMsgs' = tickMsgs + 1
    /\ UNCHANGED <<srvCmd, statusCmds, statusMsgs, inbox>>
    /\ UNCHANGED keyVars
    /\ UNCHANGED tsFrame
    /\ UNCHANGED notTs

\* case statusCheckTickMsg: returns m.statusCheckCmd()
TsStatusTick ==
    /\ tickMsgs > 0
    /\ tickMsgs' = tickMsgs - 1
    /\ statusCmds' = statusCmds + 1
    /\ UNCHANGED <<srvCmd, statusMsgs, statusTicks, inbox>>
    /\ UNCHANGED keyVars
    /\ UNCHANGED tsFrame
    /\ UNCHANGED notTs

\* a step of the supervisor inside the call of a command: ServerStartCmd
\* calls Start, serverRestartCmd calls Restart, once each
TsServerStep ==
    \/ /\ srvCmd["init"] = "issued" /\ srvRet["init"] = NoSrvRet
       /\ StartBegin("init")
    \/ \E t \in Threads :
          /\ srvCmd[t] = "issued" /\ srvRet[t] = NoSrvRet
          /\ RestartCall(t)
    \/ \E t \in Threads : srvRet[t].rs = "stop" /\ StopBegin(t)
    \/ \E t \in Threads : srvRet[t].rs = "start" /\ StartBegin(t)
    \/ \E t \in CmdThreads : StartPoll(t)
    \/ \E t \in CmdThreads : StartProbe(t)
    \/ \E t \in CmdThreads : StartDeadline(t)
    \/ WaitReturns
    \/ \E t \in Threads : StopTimeout(t)
    \/ \E t \in Threads : StopJoined(t)
    \/ ChildExitsOnSignal
    \/ ChildKilled

InitTuiServer ==
    /\ nativeSR = SmallestRate /\ nativeChannels = 1 /\ maxDurationSec = 1
    /\ RecInit /\ HkRest /\ TuiRest /\ ObsRest /\ LsnRest
    /\ IdRest /\ InstRest /\ CfgRest /\ TrRest /\ ToneRest /\ DmRest /\ TsRest
    /\ TapRest
    /\ KeyFields /\ toneName = "off" /\ Server \in BOOLEAN
    /\ cmd = 0
    /\ child = [c \in ChildIds |-> "none"]
    /\ srvPc = [t \in CmdThreads |-> "idle"]
    /\ srvMu = "free"
    /\ sigSent = {}
    /\ killSent = {}
    /\ ctxDone = FALSE
    /\ nSpawned = 0
    /\ srvRet = [t \in CmdThreads |-> NoSrvRet]

NextTuiServer ==
    \/ TsInitCmds
    \/ \E t \in Threads : TsKeyR(t)
    \/ \E t \in CmdThreads : TsSendDone(t)
    \/ \E m \in inbox : TsStarting(m)
    \/ \E m \in inbox : TsStartDone(m)
    \/ TsStatusCmd
    \/ TsStatusCheck
    \/ TsTickFires
    \/ TsStatusTick
    \/ TsServerStep

SpecTuiServer == InitTuiServer /\ [][NextTuiServer]_vars

\* every server command issued has completed and its message, like the
\* serverStartingMsg of Model.Init, has been handled
ServerCmdsDone ==
    /\ StatusChains > 0 /\ Server
    /\ \A t \in CmdThreads : srvCmd[t] \in {"none", "sent"}
    /\ \A m \in inbox : m.type \notin {"serverStartingMsg", "serverStartDoneMsg"}
\* the supervisor owns a live child that a Start has probed ready
OwnsReadyChild ==
    /\ cmd # 0
    /\ child[cmd] = "alive"
    /\ \E t \in CmdThreads :
          srvRet[t].op = "start" /\ srvRet[t].err = "none" /\ srvRet[t].c = cmd

\* C36: once every server start and restart command has completed,
\* serverState is "running" exactly if the supervisor owns a live child that
\* passed its readiness probe, also when a restart was requested while an
\* earlier start or restart was in progress
C36_RunningIffReadyChild ==
    ServerCmdsDone => (serverState = "running" <=> OwnsReadyChild)

\* C39: at any time at most one status-recheck timer is pending, however
\* many server starts and restarts have completed
C39_OneRecheckTimer == statusTicks <= 1

(***************************************************************************)
(* Spec: the pipeline                                                      *)
(***************************************************************************)
Press == PressOp(MaxPresses)

Init ==
    /\ nativeSR = SmallestRate
    /\ nativeChannels \in {1, 2}
    /\ maxDurationSec = 1
    /\ RecInit
    /\ HkRest /\ TuiRest /\ ObsRest /\ SrvRest /\ ExtRest

\* every step but the key going down
Program ==
    \/ HkStart
    \/ HkDownRet
    \/ Release
    \/ HkStop
    \/ HkUpRet
    \/ StopSignal
    \/ StopWait
    \/ StopCloseStream
    \/ StopCollect
    \/ \E s \in StreamIds : RdSelect(s)
    \/ \E s \in StreamIds : RdRead(s)
    \/ \E s \in StreamIds : RdAppend(s)
    \/ \E c \in cmds : CmdTranscribe(c)
    \/ \E c \in cmds : CmdPaste(c)
    \/ \E c \in cmds : CmdErrorTimer(c)
    \/ \E m \in inbox : Deliver(m)

Next == Press \/ Program

Spec == Init /\ [][Next]_vars

PressFair == PressOp(MaxFairPresses)

NextFair == PressFair \/ Program

\* The scheduler runs every goroutine that can take a step, a command's
\* request or timer ends, and the user lets go of a key that is held.
\* Nothing makes the user press the key.
Fairness ==
    /\ WF_vars(HkStart) /\ WF_vars(HkDownRet) /\ WF_vars(HkStop) /\ WF_vars(HkUpRet)
    /\ WF_vars(StopSignal) /\ WF_vars(StopWait)
    /\ WF_vars(StopCloseStream) /\ WF_vars(StopCollect)
    /\ WF_vars(\E s \in StreamIds : RdSelect(s))
    /\ WF_vars(\E s \in StreamIds : RdRead(s))
    /\ WF_vars(\E s \in StreamIds : RdAppend(s))
    /\ WF_vars(\E c \in cmds : CmdTranscribe(c))
    /\ WF_vars(\E c \in cmds : CmdPaste(c))
    /\ WF_vars(\E c \in cmds : CmdErrorTimer(c))
    /\ WF_vars(\E m \in inbox : Deliver(m))
    /\ WF_vars(Release)

FairSpec == Init /\ [][NextFair]_vars /\ Fairness

\* run, the clean shutdown once p.Run has returned: cancel(),
\* serverCancel(), and srv.Stop() when there is a supervisor, which has no
\* process to stop here; then run returns
Shutdown ==
    /\ ~ctxDone
    /\ ctxDone' = TRUE
    /\ UNCHANGED <<cmd, child, srvPc, srvMu, sigSent, killSent, nSpawned, srvRet>>
    /\ UNCHANGED notSrv

\* the program until run has returned
NextShutdown ==
    \/ ~ctxDone /\ Next
    \/ Shutdown

SpecShutdown == Init /\ [][NextShutdown]_vars

(***************************************************************************)
(* Claims about the pipeline (checked under Spec or FairSpec)              *)
(***************************************************************************)
\* a step of the onDown callback: the call of rec.Start, or the send that
\* follows it
OnDownStep ==
    \/ hkPc = "down_call" /\ hkPc' = "down_ret"
    \/ hkPc = "down_ret" /\ hkPc' = "idle"

\* C1: an onDown that arrives while the coordinator is not Idle is ignored:
\* it changes no coordinator state and starts no capture session.
C1_OnDownIgnoredOutsideIdle ==
    [][(OnDownStep /\ State # "Idle")
          => UNCHANGED <<State, recording, nOpened>>]_vars

C8_DownBeforeUp ==
    /\ \A p \in 1..MaxPresses :
          /\ <<"obsStopped", p>> \in hist => <<"obsStarted", p>> \in hist
          /\ <<"stopCall", p>> \in hist => <<"startDone", p>> \in hist
    /\ callPc # "idle" => (recMu /\ hkPc = "up_wait")
    /\ hkPc # "idle" => recMu

\* C8 witness: the coordinator has processed both messages of a press
C8_Witness ==
    \E p \in 1..MaxPresses :
        <<"obsStarted", p>> \in hist /\ <<"obsStopped", p>> \in hist

\* the event loop handles the errorTimeoutMsg m
TimeoutDelivered(m) == m \in inbox /\ m.type = "errorTimeoutMsg" /\ Deliver(m)

\* C14: an Error state is cleared to Idle only by the timeout message that
\* was scheduled when that Error state was entered (so not before its
\* 5 seconds have passed).
C14_ErrorClearedByOwnTimeout ==
    [][(State = "Error" /\ State' = "Idle") =>
          \E m \in inbox : TimeoutDelivered(m) /\ <<"errEntry", m.p>> \in hist]_vars

\* the event loop handles a transcription result with an empty transcript
\* or the blank-audio marker while the coordinator is Transcribing
BlankResultDelivered ==
    \E m \in inbox :
        /\ m.type = "TranscriptionResultMsg" /\ m.arg \in {"", "[BLANK_AUDIO]"}
        /\ State = "Transcribing"
        /\ Deliver(m)

\* C15: a transcript that is empty or the marker [BLANK_AUDIO], received
\* in Transcribing, takes the coordinator to Idle and issues no command.
C15_BlankTranscriptSkipsPaste ==
    [][BlankResultDelivered => (State' = "Idle" /\ cmds' = cmds)]_vars

\* nothing of the program is left to run: only the user can act
ProgramAtRest ==
    /\ hkPc = "idle" /\ callPc = "idle"
    /\ cmds = {} /\ inbox = {}
    /\ \A s \in StreamIds : rdPc[s] \in {"none", "exited"}

PpErrorDelivered(m) ==
    m \in inbox /\ m.type = "PostProcessErrorMsg" /\ PpDeliver(m)

\* C16: a failed post-processing takes the coordinator to Pasting with the
\* paste of the original transcript, never to Error; what is injected for
\* such a session is a transcript, not a text of the post-processor.
C16_PpErrorPastesOriginal ==
    /\ [][\A m \in inbox : PpErrorDelivered(m) =>
              /\ State' = "Pasting"
              /\ LastError' = LastError
              /\ cmds' = cmds \cup {Cmd("paste", m.p, m.arg)}]_vars
    /\ [](\A h \in hist :
             (h[1] = "injectedText" /\ <<"ppFailed", h[2]>> \in hist)
                => (h[3] \in Transcripts /\ h[3] # Rewritten))

\* C16 witness: the original transcript of a session whose post-processing
\* failed has been injected
C16_Witness ==
    \E h \in hist :
        /\ h[1] = "injectedText" /\ <<"ppFailed", h[2]>> \in hist
        /\ h[3] = "words"

(***************************************************************************)
(* Claims about the hotkey observers (checked under SpecHotkey)            *)
(***************************************************************************)
\* C4: the callbacks an observer fires strictly alternate, starting with
\* onDown, whatever the sequence of key events.
C4_CallbacksAlternate ==
    \A i \in 1..Len(cbLog) :
        cbLog[i] = (IF i % 2 = 1 THEN "onDown" ELSE "onUp")

(***************************************************************************)
(* Claims about the supervisor (checked under SpecServer, FairSpecServer)  *)
(***************************************************************************)
\* processes the program has spawned and not yet waited for
Unreaped == {c \in ChildIds : child[c] \in {"alive", "exited"}}

\* a step in which Start is called while s.cmd holds a process
StartWhileOwned == \E t \in Threads : StartBegin(t) /\ cmd # 0

\* C5: the supervisor owns at most one child process at any time, and a
\* Start while s.cmd holds a process of an earlier Start returns the
\* "already running" error, spawns nothing and leaves that process as it is.
C5_AtMostOneChild ==
    /\ [](Unreaped \subseteq {cmd})
    /\ [][StartWhileOwned =>
            /\ \E t \in Threads : srvRet'[t].op = "start"
                                  /\ srvRet'[t].err = "already running"
            /\ UNCHANGED <<cmd, child, nSpawned, sigSent, killSent>>]_vars

\* C5 witness: a Start was refused while the process of an earlier Start
\* is alive
C5_Witness ==
    \E t \in Threads :
        /\ srvRet[t].op = "start" /\ srvRet[t].err = "already running"
        /\ cmd # 0 /\ cmd = srvRet[t].c /\ child[cmd] = "alive"

\* a step in which Stop returns for a process it has signalled
StopReturns ==
    \E t \in Threads :
        srvPc[t] \in {"stop_wait", "stop_killed"} /\ srvPc'[t] = "idle"

\* C6: Stop sends SIGINT to the process first, sends SIGKILL only on its
\* timeout, and returns only after cmd.Wait has returned for the process;
\* at the return s.cmd is nil and Running is false; and a Stop that has
\* signalled the process does return.
C6_StopJoinsChild ==
    /\ [](/\ killSent \subseteq sigSent
          /\ \A t \in Threads :
                /\ srvPc[t] \in {"stop_wait", "stop_killed"} => cmd \in sigSent
                /\ srvPc[t] = "stop_killed" => cmd \in killSent
                /\ (srvRet[t].op = "stop" /\ srvRet[t].c # 0)
                      => (child[srvRet[t].c] = "reaped" /\ cmd # srvRet[t].c))
    /\ [][StopReturns => (child'[cmd] = "reaped" /\ cmd' = 0
                          /\ RunningValues' = {FALSE})]_vars
    /\ \A t \in Threads :
          (srvPc[t] \in {"stop_wait", "stop_killed"}) ~> (srvPc[t] = "idle")

\* C6 witness: Stop has returned for a process that did not end on SIGINT
\* and was killed
C6_Witness ==
    \E t \in Threads :
        /\ srvRet[t].op = "stop" /\ srvRet[t].c \in killSent
        /\ child[srvRet[t].c] = "reaped" /\ cmd = 0

\* a step in which the Start of a Restart returns nil to thread t
RestartReturnsOk(t) ==
    /\ srvRet[t].rs = "start" /\ srvRet'[t].rs = "done"
    /\ srvRet'[t].err = "none"

PollReturns(t) ==
    srvPc[t] \in {"start_poll", "start_probe"} /\ srvPc'[t] = "idle"

\* C18: once the context is cancelled, a Start that is in its health poll
\* returns an error; it does not return nil.
C18_CancelAbortsPoll ==
    [][\A t \in Threads : (ctxDone /\ PollReturns(t)) => srvRet'[t].err # "none"]_vars

(***************************************************************************)
(* Claims about the recorder (checked under SpecRec)                       *)
(***************************************************************************)
LiveReaders == {s \in StreamIds : rdPc[s] \in {"select", "read", "lock"}}

\* C3: Stop returns only after the reader loop has exited, and no stream is
\* stopped or closed while its reader may still be inside a read: a closed
\* stream has no live reader, Stop is past its join only when the reader it
\* joined has exited, no reader is running once Stop has returned, and no
\* reader ever reads a closed stream.
C3_StopJoinsReader ==
    /\ \A s \in StreamIds : streamSt[s] = "closed" => rdPc[s] \in {"none", "exited"}
    /\ (callPc \in {"stop_close", "stop_collect"} /\ stopLoopDone # 0)
          => rdPc[stopLoopDone] = "exited"
    /\ (callPc = "idle" /\ lastRet.op = "stop") => LiveReaders = {}
    /\ \A s \in StreamIds : rdPc[s] # "crashed"

\* C3 witness: Stop has joined the reader of a session and closed its stream
C3_Witness ==
    /\ callPc = "stop_collect"
    /\ stopLoopDone # 0
    /\ streamSt[stopLoopDone] = "closed"
    /\ rdPc[stopLoopDone] = "exited"

\* r.stream holds a stream that is open
streamOpen == stream # 0 /\ streamSt[stream] = "open"

\* C11: between calls of the recorder, recording is true if and only if
\* the input stream is open.
C11_RecordingIffStreamOpen == callPc = "idle" => (recording <=> streamOpen)

\* the input streams that are open
OpenStreams == {s \in StreamIds : streamSt[s] = "open"}

\* C37: whatever the sequence of Start and Stop calls and truncations, at no
\* time is more than one input stream open, and no stream is left behind
\* open by the recorder: an open stream is the one r.stream holds, which a
\* later Stop stops and closes
C37_OneOpenStreamHeld ==
    /\ Cardinality(OpenStreams) <= 1
    /\ \A s \in OpenStreams : callPc = "idle" => stream = s

\* the recorder holds no capture session: nothing was started, or Stop has
\* returned for the last session
NoSession == ~recording /\ stream = 0

\* C12: Stop called while no capture session is active returns the
\* "not recording" error and changes nothing.
C12_StopWithoutSession ==
    [][(CallStop /\ NoSession) =>
          /\ callPc' = "idle"
          /\ lastRet'.op = "stop" /\ lastRet'.err = "not recording"
          /\ UNCHANGED <<recording, truncated, bufLen, stream, done, loopDone,
                         doneClosed, loopDoneClosed, streamSt, rdPc>>]_vars

\* C13: Start called while a session is recording returns the
\* "already recording" error, opens no stream and leaves the buffer, the
\* truncation flag and the running reader as they are.
C13_StartWhileRecording ==
    [][(CallStart /\ recording) =>
          /\ lastRet'.op = "start" /\ lastRet'.err = "already recording"
          /\ UNCHANGED <<recording, truncated, bufLen, stream, done, loopDone,
                         doneClosed, loopDoneClosed, streamSt, rdPc, nOpened>>]_vars

\* C13 witness: Start was refused while a session with audio in its buffer
\* is recording
C13_Witness ==
    /\ lastRet.op = "start" /\ lastRet.err = "already recording"
    /\ recording /\ streamOpen /\ bufLen > 0

\* C10: the session buffer never holds more than
\* nativeRate x channels x maxDurationSeconds samples.
C10_BufferWithinCap == bufLen <= nativeSR * channels * maxDurationSec

(***************************************************************************)
(* Claims about the shutdown of run (checked under SpecShutdown)           *)
(***************************************************************************)
\* C19: once run has shut down, nothing of the program is left: the
\* recorder is not recording, its stream is closed, its reader has ended,
\* and every process of the supervisor has been waited for.
C19_NothingOutlivesShutdown ==
    ctxDone => /\ ~recording /\ ~streamOpen
               /\ LiveReaders = {}
               /\ Unreaped = {}

(***************************************************************************)
(* Claims about Listener.Start (checked under FairSpecListen)              *)
(***************************************************************************)
\* Start has returned and holds nothing of the OS: no event tap and run
\* loop, no goroutine, and the device closed when Start was cancelled
Released ==
    /\ lsnPc = "returned"
    /\ ~runLoop
    /\ auxPc \in {"none", "done"}
    /\ lsnRet = "context canceled" /\ platform = "linux" => devClosed

\* C20: once the context of the observer is cancelled, Start returns and
\* has released what it took from the OS, whenever the cancellation comes.
C20_CancelEndsStart == ctxDone ~> Released

(***************************************************************************)
(* Claims about the listener registry (checked under SpecIds)              *)
(***************************************************************************)
\* the ids freeListenerID has been given
FreedSet == {freedIDs[i] : i \in 1..Len(freedIDs)}

\* C21: the table never holds more than maxListenerID listeners and never
\* gives one id to two of them; a registration made while maxListenerID are
\* registered fails and changes nothing; a registration made while an id
\* has been given back takes such an id instead of a new one.
C21_TableBoundedIdsReused ==
    /\ [](/\ Cardinality(listenerMap) <= maxListenerID
          /\ listenerMap \subseteq 0..(maxListenerID - 1))
    /\ [][Register =>
            /\ Cardinality(listenerMap) = maxListenerID =>
                  (idRet'.err = "limit reached" /\ listenerMap' = listenerMap)
            /\ idRet'.err = "none" => idRet'.id \notin listenerMap
            /\ freedIDs # <<>> =>
                  /\ idRet'.err = "none" /\ idRet'.id \in FreedSet
                  /\ idRet'.id \notin {freedIDs'[i] : i \in 1..Len(freedIDs')}
                  /\ nextListenerID' = nextListenerID]_vars

\* C21 witness: a registration has failed with the table full
C21_Witness ==
    /\ idRet.op = "register" /\ idRet.err = "limit reached"
    /\ Cardinality(listenerMap) = maxListenerID

\* C40: whatever the sequence of registrations and releases, the ids of
\* the registered listeners and the ids of the free list lie in
\* [0, maxListenerID), a registration never gives out an id that a
\* registered listener holds, no id is at once registered and on the free
\* list, and the free list holds no id twice.
C40_IdsUniqueInRange ==
    /\ [](/\ listenerMap \subseteq 0..(maxListenerID - 1)
          /\ FreedSet \subseteq 0..(maxListenerID - 1)
          /\ listenerMap \cap FreedSet = {}
          /\ Cardinality(FreedSet) = Len(freedIDs))
    /\ [][(Register /\ idRet'.err = "none") =>
             /\ idRet'.id \in 0..(maxListenerID - 1)
             /\ idRet'.id \notin listenerMap
             /\ listenerMap' = listenerMap \cup {idRet'.id}]_vars

\* C40 witness: a registration has reused an id while other listeners are
\* registered and other ids wait on the free list
C40_Witness ==
    /\ idRet.op = "register" /\ idRet.err = "none" /\ idRet.reused
    /\ Cardinality(listenerMap) >= 2
    /\ freedIDs # <<>>

(***************************************************************************)
(* Claims about several darwinListeners (checked under SpecTaps)           *)
(***************************************************************************)
\* C38: the run loop of a listener is stopped only by that listener's own
\* Stop or by the cancellation of its own context, also when its id was
\* held before by a listener whose Start has returned
C38_StopsOnlyOwnTap ==
    \A l \in TapListeners : tapStopBy[l] \in {"none", l}

(***************************************************************************)
(* Claims about the install (checked under SpecInstall)                    *)
(***************************************************************************)
\* C22: under a final name there is no file or a complete file, at every
\* point of Setup, after its failure and after the process was killed.
C22_NoPartialUnderFinalName ==
    \A n \in FinalNames : files[n] \in {Absent, FileChunks}

(***************************************************************************)
(* Claims about config.Save (checked under SpecSave)                       *)
(***************************************************************************)
\* C23: the file at path is never partial, and no step of Save but the
\* rename that succeeds changes it: a failure or a kill before that leaves
\* the file as it was; the rename puts the complete new file there.
C23_SaveIsAtomic ==
    /\ [](cfgFile = NoFile \/ cfgFile.n = FileChunks)
    /\ [][cfgFile' # cfgFile =>
            /\ savePc = "rename" /\ saveRet' = "nil"
            /\ cfgFile' = [ver |-> nSaves, n |-> FileChunks]]_vars

\* C23 witness: the second Save was killed before its rename, and the
\* file of the first Save is there, complete
C23_Witness ==
    /\ saveRet = "killed" /\ nSaves = 2 /\ staleTmp > 0
    /\ cfgFile = [ver |-> 1, n |-> FileChunks]

(***************************************************************************)
(* Claims about the command provider (checked under SpecTranscribe)        *)
(***************************************************************************)
\* C24: whenever Transcribe is not running, whatever it has returned, the
\* temporary WAV file it made does not exist.
C24_TempFileGoneOnReturn == trPc = "idle" => tmpWav = Absent

\* C24 witness: Transcribe has returned because the command failed or ran
\* into the timeout, and the file is gone
C24_Witness ==
    /\ trPc = "idle" /\ trRet \in {"run command", "timeout"}
    /\ tmpWav = Absent

(***************************************************************************)
(* Claims about a failed device read (checked under FairSpecRec)           *)
(***************************************************************************)
\* a session whose reader has returned while r.recording is still set: the
\* reader clears the flag at the cap and Stop clears it before it signals,
\* so the reader has returned from a failed read
FailedSession ==
    /\ recording /\ ~truncated
    /\ loopDone # 0 /\ rdPc[loopDone] = "exited"

\* Stop has begun on a session whose reader had returned before
StopOfEndedReader ==
    /\ callPc = "stop_signal"
    /\ stopLoopDone # 0 /\ rdPc[stopLoopDone] = "exited"
    /\ stopDone # 0 /\ stopDone \notin doneClosed

C28_OffIsEmptyAtZero ==
    /\ toneOrder[1] = "off"
    /\ "off" \in DOMAIN tones
    /\ ResolveTone("off").Prompt = ""

\* a step that registers the single custom tone ct
RegisteringOne(ct) == RegisterCustomTones(<<ct>>)

\* C29: no name occurs twice in the cycle, after any registrations, and a
\* registration leaves the names of the cycle where they were; a registered
\* tone whose lower-case name is already in the cycle replaces the tone
\* stored under that name and leaves the cycle as it was.
C29_OverrideAddsNoDuplicate ==
    /\ [](\A i, j \in 1..Len(toneOrder) : toneOrder[i] = toneOrder[j] => i = j)
    /\ [][SubSeq(toneOrder', 1, Len(toneOrder)) = toneOrder]_vars
    /\ [][\A ct \in CustomTones :
            (RegisteringOne(ct) /\ Positions(toneOrder, ToLower(ct.Name)) # {}) =>
               /\ tones'[ToLower(ct.Name)] = [Name |-> ct.Name, Prompt |-> ct.Prompt]
               /\ toneOrder' = toneOrder]_vars

\* C29 witness: the custom tone "Polite" has replaced the prompt of the
\* built-in tone and "pirate" has been added to the cycle
C29_Witness ==
    /\ tones["polite"] = [Name |-> "Polite", Prompt |-> "Arr, rewrite as a pirate."]
    /\ Positions(toneOrder, "polite") = {2}
    /\ Positions(toneOrder, "pirate") = {7}

\* NextTone applied k times to a name
RECURSIVE NextToneTimes(_, _)
NextToneTimes(name, k) ==
    IF k = 0 THEN name ELSE NextTone(NextToneTimes(name, k - 1))

\* C30: from any name of the cycle, NextTone applied as many times as the
\* cycle has names returns that name, and the names on the way are all the
\* names of the cycle, each once.
C30_CycleVisitsAllAndWraps ==
    \A i \in 1..Len(toneOrder) :
        /\ NextToneTimes(toneOrder[i], Len(toneOrder)) = toneOrder[i]
        /\ \A k \in 0..(Len(toneOrder) - 1) :
              NextToneTimes(toneOrder[i], k) =
                 toneOrder[((i - 1 + k) % Len(toneOrder)) + 1]
        /\ {NextToneTimes(toneOrder[i], k) : k \in 0..(Len(toneOrder) - 1)} =
              {toneOrder[j] : j \in 1..Len(toneOrder)}

\* C30 witness: with a custom tone in the cycle, NextTone of the last name
\* has returned the first
C30_Witness ==
    /\ Len(toneOrder) = 7
    /\ toneRet = [op |-> "NextTone", arg |-> "Pirate", val |-> "off"]

C27_SpaceIffEarlierTranscript ==
    \A c \in cmds :
        c.kind = "paste" =>
           (c.arg \in {" " \o w : w \in Transcripts}
               <=> \E q \in 1..(c.p - 1) : <<"pasteStart", q>> \in hist)

(***************************************************************************)
(* Claims about the downmix (checked under SpecDownmix)                    *)
(***************************************************************************)
\* C31 as stated: every mono sample is the floor of half the sum of the two
\* samples of its frame.
C31_MonoIsFloorOfMean ==
    dmDone =>
       /\ Len(mono) * 2 = Len(stereo)
       /\ \A i \in 1..Len(mono) :
             mono[i] = (stereo[2 * i - 1] + stereo[2 * i]) \div 2

\* C31: every mono sample is half the sum of the two samples of its frame,
\* rounded toward zero: exact for an even sum, half a step below for an odd
\* positive sum and half a step above for an odd negative sum.
C31_MonoIsMeanTowardZero ==
    dmDone =>
       /\ Len(mono) * 2 = Len(stereo)
       /\ \A i \in 1..Len(mono) :
             LET sum == stereo[2 * i - 1] + stereo[2 * i] IN
             2 * mono[i] = (IF sum % 2 = 0 THEN sum
                            ELSE IF sum > 0 THEN sum - 1 ELSE sum + 1)

\* C31 witness: a frame with an odd negative sum and a frame of the two
\* largest samples have been downmixed
C31_Witness ==
    /\ dmDone
    /\ stereo = <<0 - 1, 0, 32767, 32767>>
    /\ mono = <<0, 32767>>

(***************************************************************************)
(* Claims about sessions that overlap (checked under Spec)                 *)
(***************************************************************************)
\* C32: while the coordinator is in Recording and the recorder is capturing,
\* no step takes the coordinator out of Recording: it leaves only after the
\* capture has been stopped.
C32_RecordingHeldWhileCapturing ==
    [][(State = "Recording" /\ recording) => State' = "Recording"]_vars

(***************************************************************************)
(* Claims about a failed Start (checked under SpecServer)                  *)
(***************************************************************************)
\* C33: when Start returns an error other than "already running" (the spawn
\* failed, the deadline of the health poll passed, or the context was
\* cancelled), s.cmd is nil, Running is false and the process the call
\* spawned, if any, is not alive.
C33_FailedStartOwnsNothing ==
    [][\A t \in Threads :
          (/\ srvRet'[t] # srvRet[t]
           /\ srvRet'[t].op = "start"
           /\ srvRet'[t].err \in {"start parakeet", "not healthy", "context canceled"})
          => /\ cmd' = 0
             /\ RunningValues' = {FALSE}
             /\ srvRet[t].op = "starting" => child'[srvRet[t].c] # "alive"]_vars

\* C34: transcripts are injected in the order of their sessions (the order
\* in which the recordings were stopped): once the transcript of a later
\* session has been injected, that of an earlier one is not injected.
C34_InjectedInStopOrder ==
    [][\A a, b \in 1..MaxPresses :
          (a < b /\ <<"injected", b>> \in hist /\ <<"injected", a>> \notin hist)
             => <<"injected", a>> \notin hist']_vars

\* C35: an errorTimeoutMsg handled while the coordinator is not in Error
\* changes neither State nor LastError.
C35_StaleTimeoutChangesNothing ==
    [][\A m \in inbox :
          (TimeoutDelivered(m) /\ State # "Error")
             => UNCHANGED <<State, LastError>>]_vars
====
